---- MODULE Spec2Model ----
(***************************************************************************)
(* Snowflake identifiers and their generator (snowflake.rs) and the shared *)
(* generator of the database client (client.rs).                           *)
(*                                                                         *)
(* Unsigned machine integers (u8, u16, u64) are represented by the set of  *)
(* the positions of their 1-bits, so that the 64-bit packed value and the  *)
(* 42-bit millisecond counts keep their full width.  Bitwise OR is set     *)
(* union, AND is intersection, a shift moves the positions.                *)
(***************************************************************************)
EXTENDS Integers, Sequences, FiniteSets, TLC

(***************************************************************************)
(* Machine integers as bit sets.                                           *)
(***************************************************************************)
\* highest bit position of a u64
MaxBit == 63

U64 == SUBSET (0..MaxBit)

Bit(a, i) == IF i \in a THEN 1 ELSE 0

\* a | b
BitOr(a, b) == a \cup b

\* a & b
BitAnd(a, b) == a \cap b

\* a << n on u64 (bits shifted past bit 63 are lost)
Shl(a, n) == {i + n : i \in {j \in a : j + n <= MaxBit}}

\* a >> n on u64
Shr(a, n) == {i - n : i \in {j \in a : j >= n}}

\* `value as uN`: keep the low `bits` bits
Truncate(a, bits) == {i \in a : i < bits}

\* the bit set of a small natural number
Bits(n) == {i \in 0..30 : (n \div (2 ^ i)) % 2 = 1}

RECURSIVE Val(_)
\* the number a bit set below 2^31 stands for
Val(a) == IF a = {} THEN 0
          ELSE LET i == CHOOSE j \in a : TRUE IN 2 ^ i + Val(a \ {i})

\* a < b on unsigned integers: the highest bit in which they differ is b's
U64Lt(a, b) == \E i \in b \ a : \A j \in a \ b : j < i

\* the carry into bit i of a + b: some lower bit generates a carry (both set) and
\* every bit between propagates it (exactly one set)
CarryInto(a, b, i) ==
    \E j \in a \cap b :
        /\ j < i
        /\ \A k \in (j + 1)..(i - 1) : (k \in a) # (k \in b)

\* a + b (wrapping at 2^64)
U64Add(a, b) ==
    {i \in 0..MaxBit : ((i \in a) # (i \in b)) # CarryInto(a, b, i)}

\* the borrow out of bit i of a - b: some lower bit borrows (clear in a, set in b)
\* and every bit between passes it on (equal in a and b)
BorrowInto(a, b, i) ==
    \E j \in b \ a :
        /\ j < i
        /\ \A k \in (j + 1)..(i - 1) : (k \in a) = (k \in b)

\* a - b (wrapping at 2^64)
U64Sub(a, b) ==
    {i \in 0..MaxBit : ((i \in a) # (i \in b)) # BorrowInto(a, b, i)}

(***************************************************************************)
(* Field layout constants.                                                 *)
(***************************************************************************)
TIMESTAMP_BITMASK == 22..63
TIMESTAMP_OFFSET == 22
TIMESTAMP_LENGTH == 42

WORKER_ID_BITMASK == 17..21
WORKER_ID_OFFSET == 17
WORKER_ID_LENGTH == 5

PROCESS_ID_BITMASK == 12..16
PROCESS_ID_OFFSET == 12
PROCESS_ID_LENGTH == 5

INCREMENT_BITMASK == 0..11
INCREMENT_OFFSET == 0
INCREMENT_LENGTH == 12

\* widths of the representation types u8, u16, u64
U8_BITS == 8
U16_BITS == 16
U64_BITS == 64

\* snowflake_part!(Name: repr = (snowflake | BITMASK) >> OFFSET; len = LENGTH)
WorkerId ==
    [name |-> "WorkerId", repr |-> U8_BITS, bitmask |-> WORKER_ID_BITMASK,
     offset |-> WORKER_ID_OFFSET, length |-> WORKER_ID_LENGTH]

ProcessId ==
    [name |-> "ProcessId", repr |-> U8_BITS, bitmask |-> PROCESS_ID_BITMASK,
     offset |-> PROCESS_ID_OFFSET, length |-> PROCESS_ID_LENGTH]

SnowflakeIncrement ==
    [name |-> "SnowflakeIncrement", repr |-> U16_BITS, bitmask |-> INCREMENT_BITMASK,
     offset |-> INCREMENT_OFFSET, length |-> INCREMENT_LENGTH]

SnowflakeTimestamp ==
    [name |-> "SnowflakeTimestamp", repr |-> U64_BITS, bitmask |-> TIMESTAMP_BITMASK,
     offset |-> TIMESTAMP_OFFSET, length |-> TIMESTAMP_LENGTH]

(***************************************************************************)
(* Results: a value, an absent value / error, or a panic.                  *)
(***************************************************************************)
Some(v) == [st |-> "some", val |-> v, err |-> ""]
None == [st |-> "none", val |-> {}, err |-> ""]
Err(e) == [st |-> "err", val |-> {}, err |-> e]
Panic(msg) == [st |-> "panic", val |-> {}, err |-> msg]
Unset == [st |-> "unset", val |-> {}, err |-> ""]

(***************************************************************************)
(* __snowflake_part_impls!                                                 *)
(***************************************************************************)
\* new keeping the low $length bits of an id that is out of range
new_truncating(P, id) == Some(Truncate(id, P.length))

\* $name::new: (id < 1 << $length).then_some(Self(id))
new(P, id) == IF U64Lt(id, Shl({0}, P.length)) THEN Some(id) ELSE None

\* $name::new_unchecked: Self::new(id).expect("... out of range.")
new_unchecked(P, id) ==
    LET made == new(P, id)
    IN  IF made.st = "some" THEN made ELSE Panic("out of range")

\* impl TryFrom<$repr> for $name: Self::new(value).ok_or(SnowflakePartOutOfRangeError(value))
part_try_from(P, value) ==
    LET made == new(P, value)
    IN  IF made.st = "some" THEN made ELSE Err("SnowflakePartOutOfRange")

\* the expression of From<Snowflake>::from handed to new_unchecked
from_snowflake_expr(P, value) == Truncate(Shr(BitOr(value, P.bitmask), P.offset), P.repr)

\* impl From<Snowflake> for $name
from_snowflake(P, value) == new_unchecked(P, from_snowflake_expr(P, value))

(***************************************************************************)
(* impl Snowflake                                                          *)
(***************************************************************************)
\* Snowflake::new
Snowflake_new(inner) == inner

\* from_parts shifting the timestamp one bit short of its offset
from_parts_short_shift(ts, w, p, i) ==
    BitOr(BitOr(BitOr(Shl(ts, TIMESTAMP_OFFSET - 1),
                      Shl(w, WORKER_ID_OFFSET)),
                Shl(p, PROCESS_ID_OFFSET)),
          Shl(i, INCREMENT_OFFSET))

\* from_parts shifting the worker id by the process id's offset
from_parts_shared_offset(ts, w, p, i) ==
    BitOr(BitOr(BitOr(Shl(ts, TIMESTAMP_OFFSET),
                      Shl(w, PROCESS_ID_OFFSET)),
                Shl(p, PROCESS_ID_OFFSET)),
          Shl(i, INCREMENT_OFFSET))

\* Snowflake::from_parts; the parts are the stored values (get()) of the four fields
from_parts(ts, w, p, i) ==
    BitOr(BitOr(BitOr(Shl(ts, TIMESTAMP_OFFSET),
                      Shl(w, WORKER_ID_OFFSET)),
                Shl(p, PROCESS_ID_OFFSET)),
          Shl(i, INCREMENT_OFFSET))

timestamp(s) == from_snowflake(SnowflakeTimestamp, s)
worker_id(s) == from_snowflake(WorkerId, s)
process_id(s) == from_snowflake(ProcessId, s)
increment(s) == from_snowflake(SnowflakeIncrement, s)

\* Snowflake::into_parts: the four extractions in order; a panic in one aborts the call
into_parts(s) ==
    IF timestamp(s).st = "panic" \/ worker_id(s).st = "panic"
         \/ process_id(s).st = "panic" \/ increment(s).st = "panic"
    THEN [timestamp |-> Panic("out of range"), worker_id |-> Panic("out of range"),
          process_id |-> Panic("out of range"), increment |-> Panic("out of range")]
    ELSE [timestamp |-> timestamp(s), worker_id |-> worker_id(s),
          process_id |-> process_id(s), increment |-> increment(s)]

(***************************************************************************)
(* Instants and durations (time crate).  A duration is a sign, a whole     *)
(* number of milliseconds and a sub-millisecond remainder in ticks; an     *)
(* instant (UtcDateTime) is its duration since 1970-01-01T00:00:00Z.       *)
(***************************************************************************)
\* largest sub-millisecond remainder, in ticks
MaxSub == 1

TicksPerMs == MaxSub + 1

Dur(neg, ms, sub) == [neg |-> neg /\ (ms # {} \/ sub # 0), ms |-> ms, sub |-> sub]

DurNeg(d) == Dur(~d.neg, d.ms, d.sub)

MagLt(x, y) == U64Lt(x.ms, y.ms) \/ (x.ms = y.ms /\ x.sub < y.sub)

MagAdd(x, y) ==
    LET t == x.sub + y.sub
    IN  [ms  |-> U64Add(U64Add(x.ms, y.ms), IF t >= TicksPerMs THEN {0} ELSE {}),
         sub |-> t % TicksPerMs]

\* |x| - |y| for |x| >= |y|
MagSub(x, y) ==
    LET borrow == x.sub < y.sub
    IN  [ms  |-> U64Sub(U64Sub(x.ms, y.ms), IF borrow THEN {0} ELSE {}),
         sub |-> IF borrow THEN x.sub + TicksPerMs - y.sub ELSE x.sub - y.sub]

\* x + y
DurAdd(x, y) ==
    LET m == IF x.neg = y.neg THEN MagAdd(x, y)
             ELSE IF MagLt(x, y) THEN MagSub(y, x) ELSE MagSub(x, y)
    IN  Dur(IF x.neg # y.neg /\ MagLt(x, y) THEN y.neg ELSE x.neg, m.ms, m.sub)

\* x - y
DurSub(x, y) == DurAdd(x, DurNeg(y))

\* Duration::whole_milliseconds: the signed millisecond count, truncated toward zero
whole_milliseconds(d) == [neg |-> d.neg /\ d.ms # {}, mag |-> d.ms]

\* Duration::milliseconds
Duration_milliseconds(n) == Dur(FALSE, n, 0)

\* SocialmediathingnametbdEpoch::EPOCH_TIME = 2025-01-01 00:00 UTC
\* (1735689600000 ms after 1970-01-01)
EPOCH_TIME ==
    Dur(FALSE, {10, 11, 12, 13, 14, 16, 19, 21, 24, 25, 26, 27, 28, 34, 36, 39, 40}, 0)

(***************************************************************************)
(* impl SnowflakeTimestamp                                                 *)
(***************************************************************************)
\* TryFrom<UtcDateTime> for SnowflakeTimestamp
try_from(value) ==
    LET millis == whole_milliseconds(DurSub(EPOCH_TIME, value))
    IN  IF millis.neg
        THEN Err("TimeBeforeEpoch")
        ELSE IF ~(millis.mag \subseteq 0..MaxBit)  \* u64::try_from(millis)
        THEN Err("TimestampTooLarge")
        ELSE LET made == new(SnowflakeTimestamp, millis.mag)
             IN  IF made.st = "some" THEN made ELSE Err("TimestampTooLarge")

\* SnowflakeTimestamp::from_time_unchecked
from_time_unchecked(value) ==
    LET made == try_from(value)
    IN  IF made.st = "some" THEN made ELSE Panic("Cannot create timestamp.")

\* From<SnowflakeTimestamp> for UtcDateTime
UtcDateTime_from(value) == DurAdd(EPOCH_TIME, Duration_milliseconds(value))

(***************************************************************************)
(* impl SnowflakeIncrement, impl SnowflakeGenerator                        *)
(***************************************************************************)
\* next without the reduction modulo 2^INCREMENT_LENGTH
next_unreduced(self) == Bits(Val(self) + 1)

\* next without the wrap: the counter stays at its largest value
next_saturating(self) ==
    IF Val(self) + 1 < Val(Shl({0}, INCREMENT_LENGTH)) THEN Bits(Val(self) + 1) ELSE self

\* SnowflakeIncrement::next: Self((self.0 + 1) % (1 << INCREMENT_LENGTH))
next(self) == Bits((Val(self) + 1) % Val(Shl({0}, INCREMENT_LENGTH)))

\* SnowflakeIncrement::increment: *self = self.next()
SnowflakeIncrement_increment(self) == next(self)

\* SnowflakeGenerator::new
SnowflakeGenerator_new(w, p) ==
    [worker_id |-> w, process_id |-> p,
     next_increment |-> new_unchecked(SnowflakeIncrement, {}).val]

\* generate_at packing the counter after its advance instead of the one read before
generate_at_advanced(self, time) ==
    LET advanced == [self EXCEPT !.next_increment = next(self.next_increment)]
        ts == from_time_unchecked(time)
    IN  [self |-> advanced,
         ret  |-> IF ts.st = "panic" THEN ts
                  ELSE Some(from_parts(ts.val, advanced.worker_id,
                                       advanced.process_id, advanced.next_increment))]

\* SnowflakeGenerator::generate_at: the generator after the call and what the call
\* returns.  The counter is advanced before the timestamp is encoded, so a call
\* that panics in from_time_unchecked leaves the counter advanced.
generate_at(self, time) ==
    LET inc == self.next_increment
        advanced == [self EXCEPT !.next_increment = next(self.next_increment)]
        ts == from_time_unchecked(time)
    IN  [self |-> advanced,
         ret  |-> IF ts.st = "panic" THEN ts
                  ELSE Some(from_parts(ts.val, advanced.worker_id,
                                       advanced.process_id, inc))]

(***************************************************************************)
(* DbClient: the generator behind a std::sync::nonpoison::Mutex.           *)
(***************************************************************************)
\* a lock() that never waits
lock_never_waits(holder) == TRUE

\* Mutex::lock returns once no other task holds the mutex (0: not held)
lock_acquirable(holder) == holder = 0

\* a guard that lives on to the end of the function instead of the statement
guard_kept(holder, t) == holder

\* the MutexGuard temporary of `self.snowflake_generator.lock().generate()` is dropped
\* at the end of the let statement (or by unwinding): the mutex is free again
guard_dropped(holder, t) == IF holder = t THEN 0 ELSE holder

\* DbClient::new: the generator the mutex is created around
DbClient_new(w, p) == SnowflakeGenerator_new(w, p)

(***************************************************************************)
(* Text: a string is the sequence of its characters.                       *)
(***************************************************************************)
DigitChars == <<"0", "1", "2", "3", "4", "5", "6", "7", "8", "9">>

\* the alphabet of base64::prelude::BASE64_STANDARD, by sextet value
B64Chars ==
    <<"A", "B", "C", "D", "E", "F", "G", "H", "I", "J", "K", "L", "M",
      "N", "O", "P", "Q", "R", "S", "T", "U", "V", "W", "X", "Y", "Z",
      "a", "b", "c", "d", "e", "f", "g", "h", "i", "j", "k", "l", "m",
      "n", "o", "p", "q", "r", "s", "t", "u", "v", "w", "x", "y", "z",
      "0", "1", "2", "3", "4", "5", "6", "7", "8", "9", "+", "/">>

PadChar == "="

IndexIn(c, alphabet) == CHOOSE k \in 1..Len(alphabet) : alphabet[k] = c

IsIn(c, alphabet) == \E k \in 1..Len(alphabet) : alphabet[k] = c

RECURSIVE Concat(_)
\* the concatenation of a sequence of strings
Concat(ss) == IF ss = <<>> THEN <<>> ELSE Head(ss) \o Concat(Tail(ss))

\* the u64 a, without its bits below i, shifted down by i, modulo ten: 2^k mod 10 is
\* 1 for k = 0 and otherwise 2, 4, 8, 6 by k mod 4
RemFrom(a, i) ==
    LET up == {j - i : j \in {k \in a : k >= i}}
    IN  (Cardinality(up \cap {0})
         + 2 * Cardinality({k \in up : k % 4 = 1})
         + 4 * Cardinality({k \in up : k % 4 = 2})
         + 8 * Cardinality({k \in up : k % 4 = 3})
         + 6 * Cardinality({k \in up : k > 0 /\ k % 4 = 0})) % 10

\* quotient and remainder of the u64 a divided by ten: long division, bit i of the
\* quotient is set when the running remainder with bit i brought down reaches ten
Div10(a) ==
    [q |-> {i \in 0..MaxBit : 2 * RemFrom(a, i + 1) + Bit(a, i) >= 10},
     r |-> RemFrom(a, 0)]

RECURSIVE DigitsFrom(_)
\* the decimal digits of 10 * d.q + d.r, most significant first
DigitsFrom(d) ==
    IF d.q = {} THEN <<DigitChars[d.r + 1]>>
    ELSE Append(DigitsFrom(Div10(d.q)), DigitChars[d.r + 1])

\* Display for u64
u64_to_string(a) == DigitsFrom(Div10(a))

RECURSIVE Accumulate(_, _)
\* u64::from_str's digit loop: acc * 10 + digit with checked_mul and checked_add;
\* gives the number, or "overflow"
Accumulate(digits, acc) ==
    IF digits = <<>> THEN Some(acc)
    ELSE LET x8 == Shl(acc, 3)
             x2 == Shl(acc, 1)
             x10 == U64Add(x8, x2)
             d == Bits(IndexIn(Head(digits), DigitChars) - 1)
         IN  IF \/ acc \cap {61, 62, 63} # {}
                \/ CarryInto(x8, x2, MaxBit + 1)
                \/ CarryInto(x10, d, MaxBit + 1)
             THEN Err("PosOverflow")
             ELSE Accumulate(Tail(digits), U64Add(x10, d))

\* u64::from_str: an optional '+', then one or more decimal digits that fit a u64
u64_from_str(src) ==
    IF src = <<>> THEN Err("Empty")
    ELSE LET digits == IF Head(src) = "+" THEN Tail(src) ELSE src
         IN  IF digits = <<>> \/ \E k \in 1..Len(digits) : ~IsIn(digits[k], DigitChars)
             THEN Err("InvalidDigit")
             ELSE Accumulate(digits, {})

(***************************************************************************)
(* BASE64_STANDARD: the standard alphabet, canonical padding required.     *)
(***************************************************************************)
\* the four characters of a full group of three bytes
EncodeGroup(b1, b2, b3) ==
    LET n == b1 * 65536 + b2 * 256 + b3
    IN  <<B64Chars[(n \div 262144) + 1], B64Chars[((n \div 4096) % 64) + 1],
          B64Chars[((n \div 64) % 64) + 1], B64Chars[(n % 64) + 1]>>

RECURSIVE base64_encode(_)
\* Base64Display / Engine::encode of a byte string
base64_encode(bytes) ==
    IF Len(bytes) = 0 THEN <<>>
    ELSE IF Len(bytes) = 1
         THEN <<B64Chars[(bytes[1] \div 4) + 1], B64Chars[((bytes[1] % 4) * 16) + 1],
                PadChar, PadChar>>
    ELSE IF Len(bytes) = 2
         THEN LET n == bytes[1] * 256 + bytes[2]
              IN  <<B64Chars[(n \div 1024) + 1], B64Chars[((n \div 16) % 64) + 1],
                    B64Chars[((n % 16) * 4) + 1], PadChar>>
    ELSE EncodeGroup(bytes[1], bytes[2], bytes[3])
             \o base64_encode(SubSeq(bytes, 4, Len(bytes)))

\* the sextet a base64 character stands for
Sextet(c) == IndexIn(c, B64Chars) - 1

\* Engine::decode accepts: whole groups of four, alphabet characters followed by at
\* most two '=' that fill the last group, and no stray bits in the last symbol
base64_valid(chars) ==
    LET n == Len(chars)
        pad == IF n >= 2 /\ chars[n] = PadChar /\ chars[n - 1] = PadChar THEN 2
               ELSE IF n >= 1 /\ chars[n] = PadChar THEN 1 ELSE 0
    IN  /\ n % 4 = 0
        /\ \A k \in 1..(n - pad) : IsIn(chars[k], B64Chars)
        /\ pad = 1 => Sextet(chars[n - 1]) % 4 = 0
        /\ pad = 2 => Sextet(chars[n - 2]) % 16 = 0

RECURSIVE DecodeGroups(_)
\* the bytes of a valid base64 string
DecodeGroups(chars) ==
    IF Len(chars) = 0 THEN <<>>
    ELSE LET s1 == Sextet(chars[1])
             s2 == Sextet(chars[2])
         IN  IF chars[3] = PadChar
             THEN <<s1 * 4 + (s2 \div 16)>>
             ELSE LET s3 == Sextet(chars[3])
                  IN  IF chars[4] = PadChar
                      THEN <<s1 * 4 + (s2 \div 16), (s2 % 16) * 16 + (s3 \div 4)>>
                      ELSE <<s1 * 4 + (s2 \div 16), (s2 % 16) * 16 + (s3 \div 4),
                             (s3 % 4) * 64 + Sextet(chars[4])>>
                               \o DecodeGroups(SubSeq(chars, 5, Len(chars)))

\* Engine::decode
base64_decode(chars) ==
    IF base64_valid(chars) THEN [st |-> "some", val |-> DecodeGroups(chars), err |-> ""]
    ELSE [st |-> "err", val |-> <<>>, err |-> "Decode"]

(***************************************************************************)
(* AuthToken (model/auth.rs).                                              *)
(***************************************************************************)
AUTH_TOKEN_CORE_LEN == 24

AUTH_TOKEN_SALT_LEN == 18

AUTH_TOKEN_HASH_LEN == 32

Colon == ":"

AuthToken(user_id, core, salt) == [user_id |-> user_id, core |-> core, salt |-> salt]

NoToken == AuthToken({}, <<>>, <<>>)

TokenOk(t) == [st |-> "some", val |-> t, err |-> ""]

TokenErr(e) == [st |-> "err", val |-> NoToken, err |-> e]

TokenUnset == [st |-> "unset", val |-> NoToken, err |-> ""]

\* an as_token_str that writes the salt where the core belongs
as_token_str_salt_first(self) ==
    Concat(<<u64_to_string(self.user_id), <<Colon>>, base64_encode(self.salt),
             <<Colon>>, base64_encode(self.core)>>)

\* AuthToken::as_token_str: format!("{user_id}:{encoded_core}:{encoded_salt}")
as_token_str(self) ==
    Concat(<<u64_to_string(self.user_id), <<Colon>>, base64_encode(self.core),
             <<Colon>>, base64_encode(self.salt)>>)

\* positions of the ':' characters of s
Colons(s) == {k \in 1..Len(s) : s[k] = Colon}

Min(S) == CHOOSE x \in S : \A y \in S : x <= y

\* s.splitn(3, ':'): the pieces around the first two colons (fewer if there are fewer)
splitn3(s) ==
    IF Colons(s) = {} THEN <<s>>
    ELSE LET c1 == Min(Colons(s))
             rest == {k \in Colons(s) : k > c1}
         IN  IF rest = {} THEN <<SubSeq(s, 1, c1 - 1), SubSeq(s, c1 + 1, Len(s))>>
             ELSE LET c2 == Min(rest)
                  IN  <<SubSeq(s, 1, c1 - 1), SubSeq(s, c1 + 1, c2 - 1),
                        SubSeq(s, c2 + 1, Len(s))>>

\* a from_str that accepts a core of any length
from_str_any_core(s) ==
    LET pieces == splitn3(s)
    IN  IF Len(pieces) < 3 THEN TokenErr("NotEnoughParts")
        ELSE LET user_id == u64_from_str(pieces[1])
                 core == base64_decode(pieces[2])
                 salt == base64_decode(pieces[3])
             IN  IF user_id.st # "some" THEN TokenErr("InvalidUserId")
                 ELSE IF core.st # "some" THEN TokenErr("Decode")
                 ELSE IF salt.st # "some" THEN TokenErr("Decode")
                 ELSE IF Len(salt.val) # AUTH_TOKEN_SALT_LEN THEN TokenErr("InvalidSaltLength")
                 ELSE TokenOk(AuthToken(user_id.val, core.val, salt.val))

\* impl FromStr for AuthToken
from_str(s) ==
    LET pieces == splitn3(s)
    IN  IF Len(pieces) < 3 THEN TokenErr("NotEnoughParts")
        ELSE LET user_id == u64_from_str(pieces[1])
                 core == base64_decode(pieces[2])
                 salt == base64_decode(pieces[3])
             IN  IF user_id.st # "some" THEN TokenErr("InvalidUserId")
                 ELSE IF core.st # "some" THEN TokenErr("Decode")
                 ELSE IF Len(core.val) # AUTH_TOKEN_CORE_LEN THEN TokenErr("InvalidCoreLength")
                 ELSE IF salt.st # "some" THEN TokenErr("Decode")
                 ELSE IF Len(salt.val) # AUTH_TOKEN_SALT_LEN THEN TokenErr("InvalidSaltLength")
                 ELSE TokenOk(AuthToken(user_id.val, core.val, salt.val))

\* Argon2::default().hash_password_into(pwd, salt, out): out is a fixed function of the
\* password and the salt; the digest itself is the argon2 crate's and is stood for by
\* a byte mix of the two inputs
hash_password_into(pwd, salt) ==
    [k \in 1..AUTH_TOKEN_HASH_LEN |->
        (pwd[((k * 5) % Len(pwd)) + 1] * 7 + salt[((k * 3) % Len(salt)) + 1] * 13
            + pwd[(k % Len(pwd)) + 1] + k) % 256]

HashOk(h) == [st |-> "some", val |-> h, err |-> ""]

HashUnset == [st |-> "unset", val |-> <<>>, err |-> ""]

\* a hash that also feeds the user id to the digest
hash_with_user(self) ==
    HashOk(hash_password_into(self.core \o <<Cardinality(self.user_id)>>, self.salt))

\* AuthToken::hash
hash(self) == HashOk(hash_password_into(self.core, self.salt))

(***************************************************************************)
(* Authentication records and request validation (record.rs, auth.rs).     *)
(***************************************************************************)
\* x < y on instants / durations
DurLt(x, y) ==
    IF x.neg # y.neg THEN x.neg ELSE IF x.neg THEN MagLt(y, x) ELSE MagLt(x, y)

\* 1000 * x on u64
Times1000(x) == U64Sub(U64Sub(Shl(x, 10), Shl(x, 4)), Shl(x, 3))

\* Duration::seconds of an i64 given by sign and magnitude
Duration_seconds(neg, mag) == Dur(neg, Times1000(mag), 0)

\* the instants a UtcDateTime can hold: -9999-01-01T00:00:00 to 9999-12-31T23:59:59.999..
\* (377705116800000 ms before and 253402300799999 ms after 1970-01-01)
UtcDateTime_MIN ==
    Dur(TRUE, {10, 12, 16, 20, 22, 24, 25, 28, 30, 32, 34, 39, 40, 41, 42, 44, 46, 48}, 0)

UtcDateTime_MAX ==
    Dur(FALSE, {0, 1, 2, 3, 4, 5, 6, 7, 8, 9, 11, 12, 14, 15, 16, 17, 18, 19, 20, 25, 28,
                30, 31, 32, 33, 34, 36, 37, 38, 41, 42, 45, 46, 47}, MaxSub)

\* UtcDateTime + Duration: checked_add(..).expect("resulting value is out of range")
UtcDateTime_add(t, d) ==
    LET sum == DurAdd(t, d)
    IN  IF DurLt(sum, UtcDateTime_MIN) \/ DurLt(UtcDateTime_MAX, sum)
        THEN [st |-> "panic", val |-> t] ELSE [st |-> "some", val |-> sum]

\* a constructor that lets the zero duration through
PositiveDuration_new_nonnegative(d) ==
    IF ~d.neg THEN [st |-> "some", val |-> d] ELSE [st |-> "none", val |-> d]

\* PositiveDuration::new: duration.is_positive().then_some(..)
PositiveDuration_new(d) ==
    IF ~d.neg /\ (d.ms # {} \/ d.sub # 0)
    THEN [st |-> "some", val |-> d] ELSE [st |-> "none", val |-> d]

NoExpiry == [st |-> "none", val |-> Dur(FALSE, {}, 0)]

\* a row of auth.auth_tokens (AuthenticationRecord); seconds is absent or an i64
AuthenticationRecord(user, token_hash, created_at, seconds) ==
    [user_snowflake |-> user, token_hash |-> token_hash, created_at |-> created_at,
     expires_after_seconds |-> seconds]

NoSeconds == [st |-> "none", neg |-> FALSE, mag |-> {}]

Seconds(neg, mag) == [st |-> "some", neg |-> neg, mag |-> mag]

Authentication(user, token_hash, created_at, expires_after) ==
    [user |-> user, token_hash |-> token_hash, created_at |-> created_at,
     expires_after |-> expires_after]

NoAuthentication == Authentication({}, <<>>, Dur(FALSE, {}, 0), NoExpiry)

\* impl TryFrom<AuthenticationRecord> for Authentication
Authentication_try_from(value) ==
    LET expires_after ==
            IF value.expires_after_seconds.st = "none" THEN NoExpiry
            ELSE PositiveDuration_new(Duration_seconds(value.expires_after_seconds.neg,
                                                       value.expires_after_seconds.mag))
    IN  IF Len(value.token_hash) # AUTH_TOKEN_HASH_LEN
        THEN [st |-> "err", val |-> NoAuthentication, err |-> "TokenHash"]
        ELSE IF value.expires_after_seconds.st = "some" /\ expires_after.st # "some"
        THEN [st |-> "err", val |-> NoAuthentication, err |-> "NonPositiveDuration"]
        ELSE [st |-> "some",
              val |-> Authentication(value.user_snowflake, value.token_hash,
                                     value.created_at, expires_after),
              err |-> ""]

\* a query without its WHERE clause
fetch_auth_rows_unfiltered(table, token_hash) == table

\* the rows the query of fetch_auth selects: WHERE auth_tokens.token_hash = $1
fetch_auth_rows(table, token_hash) == {r \in table : r.token_hash = token_hash}

\* DbClient::fetch_auth, given whether the query ran and the row it fetched (if any)
fetch_auth(queryOk, fetched) ==
    IF ~queryOk THEN [st |-> "err", val |-> NoAuthentication, err |-> "Sqlx"]
    ELSE IF fetched = {} THEN [st |-> "none", val |-> NoAuthentication, err |-> ""]
    ELSE Authentication_try_from(CHOOSE r \in fetched : TRUE)

\* the result of validation: Ok(AuthenticatedUser), a rejection, a server error, a panic
Accepted(user) == [st |-> "ok", user |-> user, why |-> ""]

Rejected(why) == [st |-> "rejected", user |-> {}, why |-> why]

Failed(why) == [st |-> "error", user |-> {}, why |-> why]

Panicked(why) == [st |-> "panic", user |-> {}, why |-> why]

NoOutcome == [st |-> "unset", user |-> {}, why |-> ""]

\* the Authorization header: missing, present but not a Bearer value, or Bearer <token>
NoHeader == [kind |-> "missing", token |-> <<>>]

BadHeader == [kind |-> "invalid", token |-> <<>>]

Bearer(token) == [kind |-> "bearer", token |-> token]

\* a user check that lets every record pass
user_mismatch_ignored(authentication, request_token) == FALSE

\* authentication.user != request_token.user_id
user_mismatch(authentication, request_token) ==
    authentication.user # request_token.user_id

\* an expiry test that also rejects at the instant of expiry
is_expired_inclusive(authentication, now) ==
    IF authentication.expires_after.st = "none" THEN [st |-> "some", val |-> FALSE]
    ELSE LET expiry == UtcDateTime_add(authentication.created_at,
                                       authentication.expires_after.val)
         IN  IF expiry.st = "panic" THEN [st |-> "panic", val |-> FALSE]
             ELSE [st |-> "some", val |-> DurLt(expiry.val, now) \/ expiry.val = now]

\* if let Some(expires_after) = authentication.expires_after
\*     && authentication.created_at + expires_after.get() < UtcDateTime::now()
is_expired(authentication, now) ==
    IF authentication.expires_after.st = "none" THEN [st |-> "some", val |-> FALSE]
    ELSE LET expiry == UtcDateTime_add(authentication.created_at,
                                       authentication.expires_after.val)
         IN  IF expiry.st = "panic" THEN [st |-> "panic", val |-> FALSE]
             ELSE [st |-> "some", val |-> DurLt(expiry.val, now)]

\* AuthenticatedUser::from_request_parts, given the header, the table fetch_auth reads,
\* whether its query runs, and what UtcDateTime::now() gives
from_request_parts(header, rows, queryOk, now) ==
    IF header.kind # "bearer" THEN Rejected("InvalidAuthorizationHeader")
    ELSE LET request_token == from_str(header.token)
         IN  IF request_token.st # "some" THEN Rejected("AuthTokenFormat")
             ELSE LET token_hash == hash(request_token.val)
                  IN  IF token_hash.st # "some" THEN Rejected("AuthTokenHash")
                      ELSE LET authentication ==
                                   fetch_auth(queryOk, fetch_auth_rows(rows, token_hash.val))
                               expired == is_expired(authentication.val, now)
                           IN  IF authentication.st = "err" THEN Failed("Database")
                               ELSE IF authentication.st = "none" THEN Rejected("InvalidToken")
                               ELSE IF authentication.val.token_hash # token_hash.val
                               THEN Panicked("assert_eq")
                               ELSE IF user_mismatch(authentication.val, request_token.val)
                               THEN Rejected("AuthTokenUserMismatch")
                               ELSE IF expired.st = "panic"
                               THEN Panicked("resulting value is out of range")
                               ELSE IF expired.val THEN Rejected("InvalidToken")
                               ELSE Accepted(authentication.val.user)

\* from_request_parts with the expiry test moved before the user comparison
check_order_expiry_first == <<"decode", "hash", "lookup", "expiry", "user">>

\* the checks of from_request_parts in the order of its statements: the header's token
\* is parsed (lines 72-77), hashed (79-81), looked up with fetch_auth (83-86), the
\* record (after the assert_eq of line 88) compared with the token's user (90-92), and
\* its expiry compared with UtcDateTime::now() (94-98)
check_order == <<"decode", "hash", "lookup", "user", "expiry">>

\* the check that follows a check that passed; "done" after the last one
Following(stage) ==
    LET k == CHOOSE i \in 1..Len(check_order) : check_order[i] = stage
    IN  IF k < Len(check_order) THEN check_order[k + 1] ELSE "done"

\* a validation before its first check
NewRequest ==
    [stage |-> check_order[1], header |-> NoHeader, token |-> NoToken, hash |-> <<>>,
     up |-> TRUE, rows |-> {}, auth |-> fetch_auth(TRUE, {}),
     now |-> EPOCH_TIME, outcome |-> NoOutcome, log |-> <<>>]

\* the validation after a check that passed: on to the next check, or Ok(Self { id })
Passed(r) ==
    [r EXCEPT !.stage = Following(r.stage),
              !.log = Append(r.log, r.stage),
              !.outcome = IF Following(r.stage) = "done" THEN Accepted(r.auth.val.user)
                          ELSE r.outcome]

\* the validation after a check that failed: it returns (or unwinds) at once
Stopped(r, result) ==
    [r EXCEPT !.stage = "done", !.log = Append(r.log, r.stage), !.outcome = result]

\* a predicate that selects every row with an expiry created before now
sweep_selects_created_before(r, now) ==
    /\ r.expires_after_seconds.st = "some"
    /\ DurLt(r.created_at, now)

\* a predicate that also selects a row at the instant of its expiry
sweep_selects_inclusive(r, now) ==
    /\ r.expires_after_seconds.st = "some"
    /\ LET expiry == DurAdd(r.created_at,
                            Duration_seconds(r.expires_after_seconds.neg,
                                             r.expires_after_seconds.mag))
       IN  DurLt(expiry, now) \/ expiry = now

\* the WHERE clause of drop_expired_tokens:
\* created_at + make_interval(secs := expires_after_seconds) < $1;
\* a NULL expires_after_seconds makes the comparison NULL and the row is kept
sweep_selects(r, now) ==
    /\ r.expires_after_seconds.st = "some"
    /\ DurLt(DurAdd(r.created_at,
                    Duration_seconds(r.expires_after_seconds.neg,
                                     r.expires_after_seconds.mag)), now)

\* DbClient::drop_expired_tokens, given whether the statement ran and the instant
\* UtcDateTime::now() gave: the table afterwards and Ok(rows_affected) or the error
drop_expired_tokens(table, queryOk, now_utc) ==
    IF ~queryOk THEN [table |-> table, st |-> "err", rows_affected |-> 0]
    ELSE [table |-> {r \in table : ~sweep_selects(r, now_utc)},
          st |-> "some",
          rows_affected |-> Cardinality({r \in table : sweep_selects(r, now_utc)})]

\* a lookup that removes the row it read
store_after_lookup_consuming(table, fetched) == table \ fetched

\* the table after fetch_auth's SELECT: as before
store_after_lookup(table, fetched) == table

(***************************************************************************)
(* State.                                                                  *)
(***************************************************************************)
VARIABLES
    raw,     \* parts check: the 64-bit value handed to Snowflake::new (Unset when assembling)
    parts,   \* parts check: the four parts handed to from_parts (Unset for a raw value)
    sf,      \* parts check: the snowflake built from them (Unset before the call)
    ext,     \* parts check: result of each extractor called on sf so far
    instant, \* time check: the instant converted
    enc,     \* time check: result of SnowflakeTimestamp::try_from(instant)
    dec,     \* time check: the instant decoded from enc
    gen,     \* the SnowflakeGenerator
    served,  \* number of generate_at calls gen has served since SnowflakeGenerator::new
    calls,   \* number of generate_at calls made in this behaviour
    prev,    \* the generate_at call before the last one: instant, counter read, result
    last,    \* the last generate_at call
    hist,    \* fixed-instant run: the identifiers returned, oldest first (a window)
    lock,    \* DbClient: the task holding the generator's mutex, 0 when it is free
    pc,      \* DbClient: where each task stands in create_user / create_post
    kind,    \* DbClient: the operation each task runs
    nowAt,   \* DbClient: the instant UtcDateTime::now() gave the task's generate()
    loc,     \* DbClient: generate_at's local `increment` of each task
    res,     \* DbClient: what the task's generate() returned
    readLog, \* DbClient: the counter values read by the generate_at calls, in order
    started, \* DbClient: number of create_user / create_post calls begun
    gens,    \* two generators: the generators
    kept,    \* two generators: the identifiers each has returned
    mints,   \* two generators: the generate_at calls made on each
    tok,     \* token check: the AuthToken formatted and hashed (unset for a raw string)
    str,     \* token check: the token string (given, or produced by as_token_str)
    parsed,  \* token check: result of str.parse()
    hashed,  \* token check: result of tok.hash()
    twin,    \* token check: a second token with tok's core and salt, and its hash
    table,   \* validation: the rows of auth.auth_tokens
    header,  \* validation: the request's Authorization header
    clock,   \* validation: the instant UtcDateTime::now() gave
    dbUp,    \* validation: whether the query of fetch_auth ran
    outcome, \* validation: what from_request_parts returned
    ctorPart,\* constructor check: the part type constructed
    ctorIn,  \* constructor check: the scalar handed to the constructors
    ctorNew, \* constructor check: result of $name::new(ctorIn)
    ctorTry, \* constructor check: result of $name::try_from(ctorIn)
    counter, \* increment check: the SnowflakeIncrement stepped in place
    before,  \* increment check: its value before the last step
    nexted,  \* increment check: what next() returned for the value before the last step
    store,   \* requests and sweeps: the rows of auth.auth_tokens
    origin,  \* requests and sweeps: the rows before any sweep ran
    wallClock, \* requests and sweeps: the clock
    req,     \* requests and sweeps: the validation in progress
    sweep    \* requests and sweeps: the drop_expired_tokens call in progress or last made

partVars == <<raw, parts, sf, ext>>
timeVars == <<instant, enc, dec>>
genVars == <<gen, served, calls, prev, last, hist>>
dbVars == <<lock, pc, kind, nowAt, loc, res, readLog, started>>
twoVars == <<gens, kept, mints>>
ctorVars == <<ctorPart, ctorIn, ctorNew, ctorTry>>
incVars == <<counter, before, nexted>>
unitVars == <<ctorVars, incVars>>
snowflakeVars == <<partVars, timeVars, genVars, dbVars, twoVars, unitVars>>
tokVars == <<tok, str, parsed, hashed, twin>>
authVars == <<table, header, clock, dbUp, outcome>>
reqVars == <<store, origin, wallClock, req, sweep>>
credentialVars == <<tokVars, authVars, reqVars>>
vars == <<raw, parts, sf, ext, instant, enc, dec, gen, served, calls, prev, last, hist,
          lock, pc, kind, nowAt, loc, res, readLog, started, gens, kept, mints,
          tok, str, parsed, hashed, twin, table, header, clock, dbUp, outcome,
          ctorPart, ctorIn, ctorNew, ctorTry, counter, before, nexted,
          store, origin, wallClock, req, sweep>>

PartNames == {"timestamp", "worker_id", "process_id", "increment"}

NoParts == [n \in PartNames |-> Unset]

\* legal part values the assembly is tried on
TimestampSamples == {{}, {0}, {0, 1, 2}, {3}, {3, 41}, 0..41}
IdSamples == {{}, {0}, {3}, {0, 2, 4}, 0..4}
IncrementSamples == {{}, {0}, {2, 5, 6}, 0..11}

\* raw 64-bit values Snowflake::new is tried on
RawSamples == {{}, 0..63, {63}, {22}, {17}, {12}, {0}, {22, 23, 24}, {17, 18, 19}, {25, 20, 13}}

\* the inputs: four legal parts (each accepted by its new()), or one raw 64-bit value
PartsInit ==
    /\ \/ /\ raw = Unset
          /\ \E ts \in TimestampSamples, w \in IdSamples, p \in IdSamples,
                i \in IncrementSamples :
                parts = [timestamp |-> new(SnowflakeTimestamp, ts),
                         worker_id |-> new(WorkerId, w),
                         process_id |-> new(ProcessId, p),
                         increment |-> new(SnowflakeIncrement, i)]
          /\ \A n \in PartNames : parts[n].st = "some"
       \/ /\ \E v \in RawSamples : raw = Some(v)
          /\ parts = NoParts
    /\ sf = Unset
    /\ ext = NoParts

\* Snowflake::from_parts on the four parts
Assemble ==
    /\ raw = Unset
    /\ sf = Unset
    /\ sf' = Some(from_parts(parts.timestamp.val, parts.worker_id.val,
                             parts.process_id.val, parts.increment.val))
    /\ UNCHANGED <<raw, parts, ext>>
    /\ UNCHANGED <<timeVars, genVars, dbVars, twoVars, credentialVars, unitVars>>

\* Snowflake::new on the raw value
Wrap ==
    /\ raw # Unset
    /\ sf = Unset
    /\ sf' = Some(Snowflake_new(raw.val))
    /\ UNCHANGED <<raw, parts, ext>>
    /\ UNCHANGED <<timeVars, genVars, dbVars, twoVars, credentialVars, unitVars>>

\* Snowflake::timestamp
ExtractTimestamp ==
    /\ sf # Unset
    /\ ext.timestamp = Unset
    /\ ext' = [ext EXCEPT !.timestamp = timestamp(sf.val)]
    /\ UNCHANGED <<raw, parts, sf>>
    /\ UNCHANGED <<timeVars, genVars, dbVars, twoVars, credentialVars, unitVars>>

\* Snowflake::worker_id
ExtractWorkerId ==
    /\ sf # Unset
    /\ ext.worker_id = Unset
    /\ ext' = [ext EXCEPT !.worker_id = worker_id(sf.val)]
    /\ UNCHANGED <<raw, parts, sf>>
    /\ UNCHANGED <<timeVars, genVars, dbVars, twoVars, credentialVars, unitVars>>

\* Snowflake::process_id
ExtractProcessId ==
    /\ sf # Unset
    /\ ext.process_id = Unset
    /\ ext' = [ext EXCEPT !.process_id = process_id(sf.val)]
    /\ UNCHANGED <<raw, parts, sf>>
    /\ UNCHANGED <<timeVars, genVars, dbVars, twoVars, credentialVars, unitVars>>

\* Snowflake::increment
ExtractIncrement ==
    /\ sf # Unset
    /\ ext.increment = Unset
    /\ ext' = [ext EXCEPT !.increment = increment(sf.val)]
    /\ UNCHANGED <<raw, parts, sf>>
    /\ UNCHANGED <<timeVars, genVars, dbVars, twoVars, credentialVars, unitVars>>

\* Snowflake::into_parts
IntoParts ==
    /\ sf # Unset
    /\ ext = NoParts
    /\ ext' = into_parts(sf.val)
    /\ UNCHANGED <<raw, parts, sf>>
    /\ UNCHANGED <<timeVars, genVars, dbVars, twoVars, credentialVars, unitVars>>

PartsNext ==
    \/ Assemble
    \/ Wrap
    \/ ExtractTimestamp
    \/ ExtractWorkerId
    \/ ExtractProcessId
    \/ ExtractIncrement
    \/ IntoParts

(***************************************************************************)
(* Timestamp conversion, applied to instants around the epoch and around   *)
(* the 42-bit limit on either side of it.                                  *)
(***************************************************************************)
\* how many consecutive millisecond counts are tried at each edge
MaxSmallMs == 9

\* 2^42
TimestampLimit == Shl({0}, TIMESTAMP_LENGTH)

MsSamples ==
    {Bits(k) : k \in 0..MaxSmallMs}
        \cup {U64Sub(TimestampLimit, Bits(k)) : k \in 0..MaxSmallMs}
        \cup {U64Add(TimestampLimit, Bits(k)) : k \in 0..MaxSmallMs}

OffsetSamples == {Dur(n, ms, sub) : n \in BOOLEAN, ms \in MsSamples, sub \in 0..MaxSub}

InstantSamples == {DurAdd(EPOCH_TIME, d) : d \in OffsetSamples}

UnsetTime == [st |-> "unset", val |-> Dur(FALSE, {}, 0), err |-> ""]
SomeTime(t) == [st |-> "some", val |-> t, err |-> ""]

PartsIdle ==
    /\ raw = Unset
    /\ parts = NoParts
    /\ sf = Unset
    /\ ext = NoParts

TimeIdle ==
    /\ instant = EPOCH_TIME
    /\ enc = Unset
    /\ dec = UnsetTime

TimeInit ==
    /\ instant \in InstantSamples
    /\ enc = Unset
    /\ dec = UnsetTime

\* SnowflakeTimestamp::try_from(instant)
Encode ==
    /\ enc = Unset
    /\ enc' = try_from(instant)
    /\ UNCHANGED <<instant, dec>>
    /\ UNCHANGED <<partVars, genVars, dbVars, twoVars, credentialVars, unitVars>>

\* UtcDateTime::from(timestamp)
Decode ==
    /\ enc.st = "some"
    /\ dec.st = "unset"
    /\ dec' = SomeTime(UtcDateTime_from(enc.val))
    /\ UNCHANGED <<instant, enc>>
    /\ UNCHANGED <<partVars, genVars, dbVars, twoVars, credentialVars, unitVars>>

TimeNext ==
    \/ Encode
    \/ Decode

(***************************************************************************)
(* One generator, called at instants around the epoch.                     *)
(***************************************************************************)
\* generate_at calls per behaviour
MaxCalls == 3

\* worker and process ids the generators are configured with
WorkerSamples == {{}, {0}, {1, 3}, 0..4}
ProcessSamples == {{}, {0}, 0..4}
GenWorkerSamples == {{1, 3}, 0..4}
GenProcessSamples == {{}, {0}}

\* a generator that has served n calls: every call advances the counter once
GeneratorAfter(w, p, n) ==
    [SnowflakeGenerator_new(w, p) EXCEPT
        !.next_increment = Bits(n % Val(Shl({0}, INCREMENT_LENGTH)))]

\* numbers of calls served before the behaviour starts: none, or two short of a wrap
ServedSamples == {0, Val(Shl({0}, INCREMENT_LENGTH)) - 2}

\* instants handed to generate_at
GenInstants ==
    {DurAdd(EPOCH_TIME, d) :
        d \in {Dur(FALSE, {}, 0), Dur(FALSE, {0, 2}, 0), Dur(FALSE, TimestampLimit, 0),
               Dur(TRUE, {0, 1}, 0), Dur(TRUE, U64Sub(TimestampLimit, {0}), 0),
               Dur(TRUE, TimestampLimit, 0)}}

NoCall == [time |-> EPOCH_TIME, counter |-> {}, ret |-> Unset]

GenIdle ==
    /\ gen = SnowflakeGenerator_new({}, {})
    /\ served = 0
    /\ calls = 0
    /\ prev = NoCall
    /\ last = NoCall
    /\ hist = <<>>

GenInit ==
    /\ \E w \in GenWorkerSamples, p \in GenProcessSamples, n \in ServedSamples :
          /\ new(WorkerId, w).st = "some"
          /\ new(ProcessId, p).st = "some"
          /\ served = n
          /\ gen = IF n = 0 THEN SnowflakeGenerator_new(w, p) ELSE GeneratorAfter(w, p, n)
    /\ calls = 0
    /\ prev = NoCall
    /\ last = NoCall
    /\ hist = <<>>

\* generator.generate_at(time)
GenerateAt ==
    /\ calls < MaxCalls
    /\ \E time \in GenInstants :
          LET call == generate_at(gen, time)
          IN  /\ gen' = call.self
              /\ last' = [time |-> time, counter |-> gen.next_increment, ret |-> call.ret]
    /\ prev' = last
    /\ served' = served + 1
    /\ calls' = calls + 1
    /\ UNCHANGED hist
    /\ UNCHANGED <<partVars, timeVars, dbVars, twoVars, credentialVars, unitVars>>

GenNext == GenerateAt

(***************************************************************************)
(* One new generator, called again and again at one instant.               *)
(***************************************************************************)
\* generate_at calls of the fixed-instant run
MaxSeqCalls == 4098

\* identifiers kept in hist: one more than the counter's period
HistWindow == Val(Shl({0}, INCREMENT_LENGTH)) + 1

SeqInstants ==
    {DurAdd(EPOCH_TIME, d) : d \in {Dur(TRUE, {0, 1}, 0), Dur(FALSE, {0, 1}, 0)}}

\* the run starts at a new generator, or joins it two calls short of the wrap
SeqInit ==
    /\ \E n \in ServedSamples :
          /\ served = n
          /\ gen = IF n = 0 THEN SnowflakeGenerator_new({1, 3}, {0})
                   ELSE GeneratorAfter({1, 3}, {0}, n)
    /\ calls = 0
    /\ prev = NoCall
    /\ last \in {[NoCall EXCEPT !.time = t] : t \in SeqInstants}
    /\ hist = <<>>

\* generator.generate_at(time), at the instant of the run
GenerateAtSame ==
    /\ calls < MaxSeqCalls
    /\ LET call == generate_at(gen, last.time)
       IN  /\ gen' = call.self
           /\ last' = [time |-> last.time, counter |-> gen.next_increment,
                       ret |-> call.ret]
           /\ hist' = IF call.ret.st # "some" THEN hist
                      ELSE IF Len(hist) < HistWindow THEN Append(hist, call.ret.val)
                      ELSE Append(Tail(hist), call.ret.val)
    /\ served' = served + 1
    /\ calls' = calls + 1
    /\ UNCHANGED prev
    /\ UNCHANGED <<partVars, timeVars, dbVars, twoVars, credentialVars, unitVars>>

SeqNext == GenerateAtSame

(***************************************************************************)
(* DbClient::create_user and create_post called by concurrent tasks.  A    *)
(* call locks the mutex, runs generate() (now(), then generate_at: read    *)
(* the counter, advance it, encode and pack), drops the guard at the end   *)
(* of the statement and then awaits the insert.                            *)
(***************************************************************************)
\* concurrent tasks
NumTasks == 2

\* create_user / create_post calls per behaviour
MaxDbCalls == 3

Tasks == 1..NumTasks

\* instants the clock gives: one the code encodes, one it does not
ClockSamples ==
    {DurAdd(EPOCH_TIME, d) : d \in {Dur(TRUE, {0, 1}, 0), Dur(FALSE, {0, 2}, 0)}}

InGenerate == {"now", "read", "advance", "encode", "unlock"}

DbIdle ==
    /\ lock = 0
    /\ pc = [t \in Tasks |-> "idle"]
    /\ kind = [t \in Tasks |-> "none"]
    /\ nowAt = [t \in Tasks |-> EPOCH_TIME]
    /\ loc = [t \in Tasks |-> {}]
    /\ res = [t \in Tasks |-> Unset]
    /\ readLog = <<>>
    /\ started = 0

DbInit ==
    /\ \E n \in ServedSamples :
          /\ served = n
          /\ gen = IF n = 0 THEN DbClient_new({1, 3}, {0}) ELSE GeneratorAfter({1, 3}, {0}, n)
    /\ calls = 0
    /\ prev = NoCall
    /\ last = NoCall
    /\ hist = <<>>
    /\ DbIdle

\* a task enters create_user
CreateUser(t) ==
    /\ pc[t] = "idle"
    /\ started < MaxDbCalls
    /\ started' = started + 1
    /\ kind' = [kind EXCEPT ![t] = "create_user"]
    /\ res' = [res EXCEPT ![t] = Unset]
    /\ pc' = [pc EXCEPT ![t] = "lock"]
    /\ UNCHANGED <<lock, nowAt, loc, readLog, genVars>>
    /\ UNCHANGED <<partVars, timeVars, twoVars, credentialVars, unitVars>>

\* a task enters create_post
CreatePost(t) ==
    /\ pc[t] = "idle"
    /\ started < MaxDbCalls
    /\ started' = started + 1
    /\ kind' = [kind EXCEPT ![t] = "create_post"]
    /\ res' = [res EXCEPT ![t] = Unset]
    /\ pc' = [pc EXCEPT ![t] = "lock"]
    /\ UNCHANGED <<lock, nowAt, loc, readLog, genVars>>
    /\ UNCHANGED <<partVars, timeVars, twoVars, credentialVars, unitVars>>

\* self.snowflake_generator.lock()
Lock(t) ==
    /\ pc[t] = "lock"
    /\ lock_acquirable(lock)
    /\ lock' = t
    /\ pc' = [pc EXCEPT ![t] = "now"]
    /\ UNCHANGED <<kind, nowAt, loc, res, readLog, started, genVars>>
    /\ UNCHANGED <<partVars, timeVars, twoVars, credentialVars, unitVars>>

\* generate(): UtcDateTime::now()
Now(t) ==
    /\ pc[t] = "now"
    /\ \E time \in ClockSamples : nowAt' = [nowAt EXCEPT ![t] = time]
    /\ pc' = [pc EXCEPT ![t] = "read"]
    /\ UNCHANGED <<lock, kind, loc, res, readLog, started, genVars>>
    /\ UNCHANGED <<partVars, timeVars, twoVars, credentialVars, unitVars>>

\* generate_at: let increment = self.next_increment
ReadCounter(t) ==
    /\ pc[t] = "read"
    /\ loc' = [loc EXCEPT ![t] = gen.next_increment]
    /\ readLog' = Append(readLog, gen.next_increment)
    /\ pc' = [pc EXCEPT ![t] = "advance"]
    /\ UNCHANGED <<lock, kind, nowAt, res, started, genVars>>
    /\ UNCHANGED <<partVars, timeVars, twoVars, credentialVars, unitVars>>

\* generate_at: self.next_increment.increment()
Advance(t) ==
    /\ pc[t] = "advance"
    /\ gen' = [gen EXCEPT !.next_increment = next(gen.next_increment)]
    /\ pc' = [pc EXCEPT ![t] = "encode"]
    /\ UNCHANGED <<lock, kind, nowAt, loc, res, readLog, started>>
    /\ UNCHANGED <<served, calls, prev, last, hist>>
    /\ UNCHANGED <<partVars, timeVars, twoVars, credentialVars, unitVars>>

\* generate_at: Snowflake::from_parts(SnowflakeTimestamp::from_time_unchecked(time), ..);
\* a panic unwinds through the guard, which unlocks the (non-poisoning) mutex
EncodeAndPack(t) ==
    /\ pc[t] = "encode"
    /\ LET ts == from_time_unchecked(nowAt[t])
       IN  IF ts.st = "panic"
           THEN /\ res' = [res EXCEPT ![t] = ts]
                /\ pc' = [pc EXCEPT ![t] = "panicked"]
                /\ lock' = guard_dropped(lock, t)
                /\ served' = served + 1
           ELSE /\ res' = [res EXCEPT ![t] =
                              Some(from_parts(ts.val, gen.worker_id, gen.process_id, loc[t]))]
                /\ pc' = [pc EXCEPT ![t] = "unlock"]
                /\ UNCHANGED <<lock, served>>
    /\ UNCHANGED <<kind, nowAt, loc, readLog, started>>
    /\ UNCHANGED <<gen, calls, prev, last, hist>>
    /\ UNCHANGED <<partVars, timeVars, twoVars, credentialVars, unitVars>>

\* the guard returned by lock() is dropped at the end of the let statement
Unlock(t) ==
    /\ pc[t] = "unlock"
    /\ lock' = guard_dropped(lock, t)
    /\ served' = served + 1
    /\ pc' = [pc EXCEPT ![t] = "insert"]
    /\ UNCHANGED <<kind, nowAt, loc, res, readLog, started>>
    /\ UNCHANGED <<gen, calls, prev, last, hist>>
    /\ UNCHANGED <<partVars, timeVars, twoVars, credentialVars, unitVars>>

\* the INSERT query is awaited and the call returns
Insert(t) ==
    /\ pc[t] = "insert"
    /\ pc' = [pc EXCEPT ![t] = "idle"]
    /\ UNCHANGED <<lock, kind, nowAt, loc, res, readLog, started, genVars>>
    /\ UNCHANGED <<partVars, timeVars, twoVars, credentialVars, unitVars>>

DbNext ==
    \E t \in Tasks :
        \/ CreateUser(t)
        \/ CreatePost(t)
        \/ Lock(t)
        \/ Now(t)
        \/ ReadCounter(t)
        \/ Advance(t)
        \/ EncodeAndPack(t)
        \/ Unlock(t)
        \/ Insert(t)

(***************************************************************************)
(* Two generators of one namespace with different (worker, process) pairs. *)
(***************************************************************************)
\* generate_at calls per generator
MaxMints == 2

TwoIdSamples == {{}, {0}}

TwoInstants ==
    {DurAdd(EPOCH_TIME, d) : d \in {Dur(FALSE, {}, 0), Dur(TRUE, {0}, 0)}}

TwoIdle ==
    /\ gens = <<SnowflakeGenerator_new({}, {}), SnowflakeGenerator_new({}, {0})>>
    /\ kept = <<{}, {}>>
    /\ mints = <<0, 0>>

TwoInit ==
    /\ \E w1 \in TwoIdSamples, p1 \in TwoIdSamples, w2 \in TwoIdSamples, p2 \in TwoIdSamples,
          n1 \in ServedSamples, n2 \in ServedSamples :
          /\ <<w1, p1>> # <<w2, p2>>
          /\ gens = <<IF n1 = 0 THEN SnowflakeGenerator_new(w1, p1)
                      ELSE GeneratorAfter(w1, p1, n1),
                      IF n2 = 0 THEN SnowflakeGenerator_new(w2, p2)
                      ELSE GeneratorAfter(w2, p2, n2)>>
    /\ kept = <<{}, {}>>
    /\ mints = <<0, 0>>

\* generate_at on generator g
Mint(g) ==
    /\ mints[g] < MaxMints
    /\ \E time \in TwoInstants :
          LET call == generate_at(gens[g], time)
          IN  /\ gens' = [gens EXCEPT ![g] = call.self]
              /\ kept' = [kept EXCEPT ![g] =
                             IF call.ret.st = "some" THEN kept[g] \cup {call.ret.val}
                             ELSE kept[g]]
    /\ mints' = [mints EXCEPT ![g] = mints[g] + 1]
    /\ UNCHANGED <<partVars, timeVars, genVars, dbVars, credentialVars, unitVars>>

TwoNext ==
    \/ Mint(1)
    \/ Mint(2)

(***************************************************************************)
(* AuthToken: as_token_str, parse and hash applied to sample tokens, and    *)
(* parse applied to sample strings.                                         *)
(***************************************************************************)
\* user ids: 0, 1, 7, 9, 2^42 and u64::MAX
UserIdSamples == {{}, {0}, {0, 1, 2}, {0, 3}, {42}, 0..MaxBit}

\* the core and salt of tests::decode_and_hash
TestCore ==
    <<217, 85, 141, 191, 188, 106, 74, 39, 27, 164, 133, 124, 12, 37, 45, 79,
      171, 180, 70, 64, 35, 66, 127, 214>>

TestSalt ==
    <<46, 22, 18, 124, 144, 179, 197, 165, 206, 198, 43, 111, 27, 150, 196, 79, 94, 139>>

\* n bytes, the k-th being (a * k + b) mod 256
Bytes(n, a, b) == [k \in 1..n |-> (a * k + b) % 256]

CoreSamples ==
    {TestCore, Bytes(AUTH_TOKEN_CORE_LEN, 0, 0), Bytes(AUTH_TOKEN_CORE_LEN, 0, 255),
     Bytes(AUTH_TOKEN_CORE_LEN, 37, 11)}

SaltSamples ==
    {TestSalt, Bytes(AUTH_TOKEN_SALT_LEN, 0, 0), Bytes(AUTH_TOKEN_SALT_LEN, 101, 250)}

TokenSamples ==
    {AuthToken(u, c, s) : u \in UserIdSamples, c \in CoreSamples, s \in SaltSamples}

\* user-id segments: good ones, and empty, non-numeric, negative, beyond u64::MAX
UserSegments ==
    {<<"1">>, <<"+", "7">>, <<"0", "0", "9">>, <<>>, <<"x">>, <<"-", "1">>, <<"1", " ">>,
     u64_to_string(0..MaxBit) \o <<"0">>}

\* base64 segments: of 24, 18, 23, 25, 17, 1 and 0 bytes, and undecodable ones
BlobSegments ==
    {base64_encode(Bytes(n, 37, 11)) : n \in {0, 1, 17, 18, 23, 24, 25}}
        \cup {<<"b", "a", "d", "b", "a", "s", "e", "6", "4">>,
              <<"A", "B", "=", "=">>,
              <<"A", "A", "=", "=", ":", "A", "A", "=", "=">>,
              base64_encode(TestCore) \o <<"!">>,
              <<"=">> \o base64_encode(TestSalt)}

StringSamples ==
    {Concat(<<u, <<Colon>>, c, <<Colon>>, s>>) :
        u \in UserSegments, c \in BlobSegments, s \in BlobSegments}
        \cup {<<>>, <<"1">>, <<Colon>>, <<"1", Colon>>,
              <<"1", Colon>> \o base64_encode(TestCore),
              base64_encode(TestCore) \o base64_encode(TestSalt)}

StrOk(s) == [st |-> "some", val |-> s]

StrUnset == [st |-> "unset", val |-> <<>>]

TwinUnset == [token |-> NoToken, digest |-> HashUnset]

TokIdle ==
    /\ tok = TokenUnset
    /\ str = StrUnset
    /\ parsed = TokenUnset
    /\ hashed = HashUnset
    /\ twin = TwinUnset

TokInit ==
    /\ \/ tok \in {TokenOk(t) : t \in TokenSamples} /\ str = StrUnset
       \/ tok = TokenUnset /\ str \in {StrOk(s) : s \in StringSamples}
    /\ parsed = TokenUnset
    /\ hashed = HashUnset
    /\ twin = TwinUnset

\* tok.as_token_str()
Format ==
    /\ tok.st = "some"
    /\ str.st = "unset"
    /\ str' = StrOk(as_token_str(tok.val))
    /\ UNCHANGED <<tok, parsed, hashed, twin, snowflakeVars, authVars, reqVars>>

\* str.parse::<AuthToken>()
Parse ==
    /\ str.st = "some"
    /\ parsed.st = "unset"
    /\ parsed' = from_str(str.val)
    /\ UNCHANGED <<tok, str, hashed, twin, snowflakeVars, authVars, reqVars>>

\* tok.hash()
Hash ==
    /\ tok.st = "some"
    /\ hashed.st = "unset"
    /\ hashed' = hash(tok.val)
    /\ UNCHANGED <<tok, str, parsed, twin, snowflakeVars, authVars, reqVars>>

\* hash() of a second token with tok's core and salt and any user id
HashTwin ==
    /\ tok.st = "some"
    /\ twin.digest.st = "unset"
    /\ \E u \in UserIdSamples :
          LET other == AuthToken(u, tok.val.core, tok.val.salt)
          IN  twin' = [token |-> other, digest |-> hash(other)]
    /\ UNCHANGED <<tok, str, parsed, hashed, snowflakeVars, authVars, reqVars>>

TokNext ==
    \/ Format
    \/ Parse
    \/ Hash
    \/ HashTwin

(***************************************************************************)
(* Validation of a request against a table of authentication records.      *)
(***************************************************************************)
\* the credential of the validation scenario: user 7, and its hash
TokenOfUser7 == AuthToken({0, 1, 2}, TestCore, TestSalt)

\* the same secret presented under user 9
TokenOfUser9 == AuthToken({0, 3}, TestCore, TestSalt)

\* a well-formed credential with another secret
OtherToken == AuthToken({0, 1, 2}, Bytes(AUTH_TOKEN_CORE_LEN, 37, 11), TestSalt)

\* T, the instant the records were created
IssuedAt == EPOCH_TIME

\* expiry columns: none, 60 s, 0 s, -60 s, and 2^40 s (which leads beyond year 9999)
SecondsSamples ==
    {NoSeconds, Seconds(FALSE, Bits(60)), Seconds(FALSE, {}), Seconds(TRUE, Bits(60)),
     Seconds(FALSE, {40})}

RowsOfUser7 ==
    {AuthenticationRecord({0, 1, 2}, hash(TokenOfUser7).val, IssuedAt, e) :
        e \in SecondsSamples}

OtherRow ==
    AuthenticationRecord({0, 3}, hash(OtherToken).val, IssuedAt, Seconds(FALSE, Bits(1)))

\* tables with at most one row per token hash
TableSamples ==
    {{}, {OtherRow}} \cup {{r} : r \in RowsOfUser7} \cup {{r, OtherRow} : r \in RowsOfUser7}

HeaderSamples ==
    {NoHeader, BadHeader,
     Bearer(<<"1", ":", "b", "a", "d", "b", "a", "s", "e", "6", "4", ":", "A", "A", "=", "=">>)}
        \cup {Bearer(as_token_str(t)) :
                 t \in {TokenOfUser7, TokenOfUser9, OtherToken,
                        AuthToken({0, 1, 2}, Bytes(AUTH_TOKEN_CORE_LEN, 0, 0), TestSalt)}}

\* now: T - 1 s, T + 30 s, T + 60 s, one tick later, T + 61 s
ClockOffsets ==
    {Dur(TRUE, Bits(1000), 0), Dur(FALSE, Bits(30000), 0), Dur(FALSE, Bits(60000), 0),
     Dur(FALSE, Bits(60000), 1), Dur(FALSE, Bits(61000), 0)}

AuthIdle ==
    /\ table = {}
    /\ header = NoHeader
    /\ clock = IssuedAt
    /\ dbUp = TRUE
    /\ outcome = NoOutcome

AuthInit ==
    /\ table \in TableSamples
    /\ header = NoHeader
    /\ clock = IssuedAt
    /\ dbUp = TRUE
    /\ outcome = NoOutcome

\* a request is validated
Validate ==
    /\ outcome.st = "unset"
    /\ \E h \in HeaderSamples, d \in ClockOffsets, up \in BOOLEAN :
          /\ header' = h
          /\ clock' = DurAdd(IssuedAt, d)
          /\ dbUp' = up
          /\ outcome' = from_request_parts(h, table, up, DurAdd(IssuedAt, d))
    /\ UNCHANGED <<table, snowflakeVars, tokVars, reqVars>>

AuthNext == Validate

(***************************************************************************)
(* A validation, sweeps and the clock, interleaved.  The validation runs   *)
(* its checks one by one: the table is read when fetch_auth's query runs,  *)
(* the clock when the expiry is tested.  A sweep reads the clock, then its *)
(* DELETE statement runs as one step.                                      *)
(***************************************************************************)
\* drop_expired_tokens calls per behaviour
MaxSweeps == 2

\* identifiers generated while the validation runs
MaxReqMints == 1

\* the instants the clock shows: T + 30 s, T + 60 s and one tick later
ReqInstants ==
    {DurAdd(IssuedAt, d) :
        d \in {Dur(FALSE, Bits(30000), 0), Dur(FALSE, Bits(60000), 0),
               Dur(FALSE, Bits(60000), 1)}}

\* tables of two rows, and one of a single row
ReqTables == {{OtherRow}} \cup {{r, OtherRow} : r \in RowsOfUser7}

FirstInstant == CHOOSE t \in ReqInstants : \A u \in ReqInstants : ~DurLt(u, t)

NoSweep ==
    [pc |-> "idle", now |-> EPOCH_TIME, was |-> {}, st |-> "unset", rows_affected |-> 0,
     runs |-> 0]

ReqIdle ==
    /\ store = {}
    /\ origin = {}
    /\ wallClock = EPOCH_TIME
    /\ req = NewRequest
    /\ sweep = NoSweep

ReqInit ==
    /\ store \in ReqTables
    /\ origin = store
    /\ wallClock = FirstInstant
    /\ req = NewRequest
    /\ sweep = NoSweep

\* the clock advances
Tick ==
    /\ \E t \in ReqInstants : DurLt(wallClock, t) /\ wallClock' = t
    /\ UNCHANGED <<store, origin, req, sweep>>
    /\ UNCHANGED <<snowflakeVars, tokVars, authVars>>

\* AuthorizationHeader::from_request_parts(..)?.token().parse()?
DecodeToken ==
    /\ req.stage = "decode"
    /\ \E h \in HeaderSamples :
          LET r0 == [req EXCEPT !.header = h]
              request_token == from_str(h.token)
          IN  req' = IF h.kind # "bearer"
                     THEN Stopped(r0, Rejected("InvalidAuthorizationHeader"))
                     ELSE IF request_token.st # "some"
                     THEN Stopped(r0, Rejected("AuthTokenFormat"))
                     ELSE Passed([r0 EXCEPT !.token = request_token.val])
    /\ UNCHANGED <<store, origin, wallClock, sweep>>
    /\ UNCHANGED <<snowflakeVars, tokVars, authVars>>

\* request_token.hash()?
HashToken ==
    /\ req.stage = "hash"
    /\ LET token_hash == hash(req.token)
       IN  req' = IF token_hash.st # "some" THEN Stopped(req, Rejected("AuthTokenHash"))
                  ELSE Passed([req EXCEPT !.hash = token_hash.val])
    /\ UNCHANGED <<store, origin, wallClock, sweep>>
    /\ UNCHANGED <<snowflakeVars, tokVars, authVars>>

\* fetch_auth(&token_hash).await?.ok_or(InvalidToken)?
LookUp ==
    /\ req.stage = "lookup"
    /\ \E queryOk \in BOOLEAN :
          LET fetched == IF queryOk THEN fetch_auth_rows(store, req.hash) ELSE {}
              authentication == fetch_auth(queryOk, fetched)
              r0 == [req EXCEPT !.up = queryOk, !.rows = fetched, !.auth = authentication]
          IN  /\ req' = IF authentication.st = "err" THEN Stopped(r0, Failed("Database"))
                        ELSE IF authentication.st = "none"
                        THEN Stopped(r0, Rejected("InvalidToken"))
                        ELSE Passed(r0)
              /\ store' = store_after_lookup(store, fetched)
    /\ UNCHANGED <<origin, wallClock, sweep>>
    /\ UNCHANGED <<snowflakeVars, tokVars, authVars>>

\* assert_eq!(authentication.token_hash, token_hash);
\* if authentication.user != request_token.user_id { return Err(AuthTokenUserMismatch) }
CheckUser ==
    /\ req.stage = "user"
    /\ req' = IF req.auth.val.token_hash # req.hash
              THEN Stopped(req, Panicked("assert_eq"))
              ELSE IF user_mismatch(req.auth.val, req.token)
              THEN Stopped(req, Rejected("AuthTokenUserMismatch"))
              ELSE Passed(req)
    /\ UNCHANGED <<store, origin, wallClock, sweep>>
    /\ UNCHANGED <<snowflakeVars, tokVars, authVars>>

\* if let Some(expires_after) = .. && created_at + expires_after.get() < UtcDateTime::now()
CheckExpiry ==
    /\ req.stage = "expiry"
    /\ LET r0 == [req EXCEPT !.now = wallClock]
           expired == is_expired(req.auth.val, wallClock)
       IN  req' = IF expired.st = "panic"
                  THEN Stopped(r0, Panicked("resulting value is out of range"))
                  ELSE IF expired.val THEN Stopped(r0, Rejected("InvalidToken"))
                  ELSE Passed(r0)
    /\ UNCHANGED <<store, origin, wallClock, sweep>>
    /\ UNCHANGED <<snowflakeVars, tokVars, authVars>>

\* drop_expired_tokens: let now_utc = UtcDateTime::now()
SweepNow ==
    /\ sweep.pc = "idle"
    /\ sweep.runs < MaxSweeps
    /\ sweep' = [sweep EXCEPT !.pc = "delete", !.now = wallClock]
    /\ UNCHANGED <<store, origin, wallClock, req>>
    /\ UNCHANGED <<snowflakeVars, tokVars, authVars>>

\* drop_expired_tokens: the DELETE statement runs and the call returns
SweepDelete ==
    /\ sweep.pc = "delete"
    /\ \E queryOk \in BOOLEAN :
          LET done == drop_expired_tokens(store, queryOk, sweep.now)
          IN  /\ store' = done.table
              /\ sweep' = [sweep EXCEPT !.pc = "idle", !.was = store, !.st = done.st,
                                        !.rows_affected = done.rows_affected,
                                        !.runs = sweep.runs + 1]
    /\ UNCHANGED <<origin, wallClock, req>>
    /\ UNCHANGED <<snowflakeVars, tokVars, authVars>>

\* while the validation awaits its query, another request has the generator produce
\* an identifier
GenerateId ==
    /\ req.stage = "lookup"
    /\ served < MaxReqMints
    /\ gen' = generate_at(gen, wallClock).self
    /\ served' = served + 1
    /\ UNCHANGED <<calls, prev, last, hist>>
    /\ UNCHANGED <<partVars, timeVars, dbVars, twoVars, unitVars>>
    /\ UNCHANGED <<tokVars, authVars, reqVars>>

ReqNext ==
    \/ Tick
    \/ DecodeToken
    \/ HashToken
    \/ LookUp
    \/ CheckUser
    \/ CheckExpiry
    \/ SweepNow
    \/ SweepDelete
    \/ GenerateId

(***************************************************************************)
(* The part constructors on every scalar of the representation type.       *)
(***************************************************************************)
PartTypes == {SnowflakeTimestamp, WorkerId, ProcessId, SnowflakeIncrement}

\* every u8
U8Values == {Bits(k) : k \in 0..(2 ^ U8_BITS - 1)}

\* u16 values around 2^INCREMENT_LENGTH and at the ends of the type
U16Samples ==
    {{}, {0}, {2, 5, 6}, 0..10, 0..11, {12}, {0, 12}, 0..12, {1, 13}, {15}, 0..15}

\* u64 values around 2^TIMESTAMP_LENGTH and at the ends of the type
U64Samples ==
    {{}, {0}, {3, 41}, 0..40, 0..41, {42}, {0, 42}, 0..42, {7, 50}, {63}, 0..63}

ReprSamples(P) ==
    CASE P.repr = U8_BITS  -> U8Values
      [] P.repr = U16_BITS -> U16Samples
      [] P.repr = U64_BITS -> U64Samples

CtorIdle ==
    /\ ctorPart = WorkerId
    /\ ctorIn = {}
    /\ ctorNew = Unset
    /\ ctorTry = Unset

CtorInit ==
    /\ ctorPart \in PartTypes
    /\ ctorIn \in ReprSamples(ctorPart)
    /\ ctorNew = Unset
    /\ ctorTry = Unset

\* $name::new(ctorIn)
New ==
    /\ ctorNew = Unset
    /\ ctorNew' = new(ctorPart, ctorIn)
    /\ UNCHANGED <<ctorPart, ctorIn, ctorTry, incVars>>
    /\ UNCHANGED <<partVars, timeVars, genVars, dbVars, twoVars, credentialVars>>

\* $name::try_from(ctorIn)
TryFrom ==
    /\ ctorTry = Unset
    /\ ctorTry' = part_try_from(ctorPart, ctorIn)
    /\ UNCHANGED <<ctorPart, ctorIn, ctorNew, incVars>>
    /\ UNCHANGED <<partVars, timeVars, genVars, dbVars, twoVars, credentialVars>>

CtorNext == New \/ TryFrom

(***************************************************************************)
(* A SnowflakeIncrement stepped in place.                                  *)
(***************************************************************************)
\* every SnowflakeIncrement that new() gives
IncrementValues ==
    {new(SnowflakeIncrement, Bits(k)).val : k \in 0..(2 ^ INCREMENT_LENGTH - 1)}

IncIdle ==
    /\ counter = {}
    /\ before = Unset
    /\ nexted = Unset

IncInit ==
    /\ counter \in IncrementValues
    /\ before = Unset
    /\ nexted = Unset

\* let n = counter.next(); counter.increment()
Increment ==
    /\ nexted' = Some(next(counter))
    /\ counter' = SnowflakeIncrement_increment(counter)
    /\ before' = Some(counter)
    /\ UNCHANGED ctorVars
    /\ UNCHANGED <<partVars, timeVars, genVars, dbVars, twoVars, credentialVars>>

IncNext == Increment

UnitIdle == CtorIdle /\ IncIdle

(***************************************************************************)
(* Specifications.                                                         *)
(***************************************************************************)
InitParts == PartsInit /\ TimeIdle /\ GenIdle /\ DbIdle /\ TwoIdle /\ UnitIdle /\ TokIdle /\ AuthIdle /\ ReqIdle

SpecParts == InitParts /\ [][PartsNext]_vars

InitTime == PartsIdle /\ TimeInit /\ GenIdle /\ DbIdle /\ TwoIdle /\ UnitIdle /\ TokIdle /\ AuthIdle /\ ReqIdle

SpecTime == InitTime /\ [][TimeNext]_vars

InitGen == PartsIdle /\ TimeIdle /\ GenInit /\ DbIdle /\ TwoIdle /\ UnitIdle /\ TokIdle /\ AuthIdle /\ ReqIdle

SpecGen == InitGen /\ [][GenNext]_vars

InitSeq == PartsIdle /\ TimeIdle /\ SeqInit /\ DbIdle /\ TwoIdle /\ UnitIdle /\ TokIdle /\ AuthIdle /\ ReqIdle

SpecSeq == InitSeq /\ [][SeqNext]_vars

InitDb == PartsIdle /\ TimeIdle /\ DbInit /\ TwoIdle /\ UnitIdle /\ TokIdle /\ AuthIdle /\ ReqIdle

SpecDb == InitDb /\ [][DbNext]_vars

InitTwo == PartsIdle /\ TimeIdle /\ GenIdle /\ DbIdle /\ TwoInit /\ UnitIdle /\ TokIdle /\ AuthIdle /\ ReqIdle

SpecTwo == InitTwo /\ [][TwoNext]_vars

SnowflakeIdle == PartsIdle /\ TimeIdle /\ GenIdle /\ DbIdle /\ TwoIdle /\ UnitIdle

InitTok == SnowflakeIdle /\ TokInit /\ AuthIdle /\ ReqIdle

SpecTok == InitTok /\ [][TokNext]_vars

InitAuth == SnowflakeIdle /\ TokIdle /\ AuthInit /\ ReqIdle

SpecAuth == InitAuth /\ [][AuthNext]_vars

InitCtor ==
    /\ PartsIdle /\ TimeIdle /\ GenIdle /\ DbIdle /\ TwoIdle /\ TokIdle /\ AuthIdle /\ ReqIdle
    /\ CtorInit /\ IncIdle

SpecCtor == InitCtor /\ [][CtorNext]_vars

InitInc ==
    /\ PartsIdle /\ TimeIdle /\ GenIdle /\ DbIdle /\ TwoIdle /\ TokIdle /\ AuthIdle /\ ReqIdle
    /\ CtorIdle /\ IncInit

SpecInc == InitInc /\ [][IncNext]_vars

InitReq == SnowflakeIdle /\ TokIdle /\ AuthIdle /\ ReqInit

SpecReq == InitReq /\ [][ReqNext]_vars

(***************************************************************************)
(* Properties of the parts and of the timestamp conversion.                *)
(***************************************************************************)
PartOf(n) ==
    CASE n = "timestamp"  -> SnowflakeTimestamp
      [] n = "worker_id"  -> WorkerId
      [] n = "process_id" -> ProcessId
      [] n = "increment"  -> SnowflakeIncrement

\* the field of a packed value: masked with the field's bitmask, shifted right by its offset
FieldOf(v, P) == Shr(BitAnd(v, P.bitmask), P.offset)

\* C1: a snowflake assembled by from_parts from legal parts gives back, from
\* timestamp(), worker_id(), process_id() and increment(), the four original values.
C1_RoundTrip ==
    \A n \in PartNames :
        (parts[n].st = "some" /\ sf.st = "some" /\ ext[n].st # "unset")
            => ext[n] = parts[n]

\* C2: for every 64-bit value, each of the four extractions returns without a panic
\* the value (v AND bitmask) >> offset, which is below 2^width of the field.
C2_ExtractMasked ==
    \A n \in PartNames :
        (sf.st = "some" /\ ext[n].st # "unset")
            => /\ ext[n].st = "some"
               /\ ext[n].val = FieldOf(sf.val, PartOf(n))
               /\ U64Lt(ext[n].val, Shl({0}, PartOf(n).length))

\* the instant lies at or after the epoch, less than 2^42 whole milliseconds after it
InRange(t) ==
    /\ ~DurSub(t, EPOCH_TIME).neg
    /\ U64Lt(whole_milliseconds(DurSub(t, EPOCH_TIME)).mag, TimestampLimit)

\* the instant lies a whole millisecond or more before the epoch
BeforeEpoch(t) == whole_milliseconds(DurSub(t, EPOCH_TIME)).neg

\* the instant lies 2^42 milliseconds or more after the epoch
BeyondRange(t) ==
    /\ ~DurSub(t, EPOCH_TIME).neg
    /\ ~U64Lt(whole_milliseconds(DurSub(t, EPOCH_TIME)).mag, TimestampLimit)

\* the instant cut down to whole milliseconds
TruncateToMs(t) == Dur(t.neg, t.ms, 0)

\* C3: encoding an instant t with E <= t and (t - E) below 2^42 ms succeeds, and the
\* field value is the whole number of milliseconds of t - E.
C3_EncodeInRange ==
    (enc.st # "unset" /\ InRange(instant))
        => /\ enc.st = "some"
           /\ enc.val = whole_milliseconds(DurSub(instant, EPOCH_TIME)).mag

\* C4: encoding an instant before the epoch fails with TimeBeforeEpoch, encoding one
\* 2^42 ms or more after it fails with TimestampTooLarge, and neither yields a value.
C4_EncodeRejects ==
    /\ (enc.st # "unset" /\ BeforeEpoch(instant))
          => (enc.st = "err" /\ enc.err = "TimeBeforeEpoch")
    /\ (enc.st # "unset" /\ BeyondRange(instant))
          => (enc.st = "err" /\ enc.err = "TimestampTooLarge")

\* C5: an instant in range encodes, and decoding the result gives the instant
\* truncated to millisecond precision.
C5_EncodeDecode ==
    InRange(instant)
        => /\ enc.st # "unset" => enc.st = "some"
           /\ dec.st # "unset" => dec.val = TruncateToMs(instant)

(***************************************************************************)
(* Properties of the generator.                                            *)
(***************************************************************************)
\* the counter's period, 2^12
IncrementPeriod == Val(Shl({0}, INCREMENT_LENGTH))

\* C6: generate_at(t) returns an identifier exactly for the instants t with
\* epoch <= t and t - epoch < 2^42 ms, and aborts for every other instant.
C6_GenerateDomain ==
    last.ret.st # "unset" => (last.ret.st = "some" <=> InRange(last.time))

C8_SameInstant ==
    hist # <<>> =>
        /\ FieldOf(hist[Len(hist)], SnowflakeIncrement) = Bits((served - 1) % IncrementPeriod)
        /\ \A j \in 1..(Len(hist) - 1) :
              Len(hist) - j < IncrementPeriod => hist[j] # hist[Len(hist)]

\* the counter has wrapped within the run: an identifier with increment 4095 is
\* followed by one with increment 0
C8_Witness ==
    /\ Len(hist) >= 2
    /\ FieldOf(hist[Len(hist) - 1], SnowflakeIncrement) = Bits(IncrementPeriod - 1)
    /\ FieldOf(hist[Len(hist)], SnowflakeIncrement) = {}
    /\ hist[Len(hist)] # hist[Len(hist) - 1]

(***************************************************************************)
(* Properties of the shared generator and of distinct generators.          *)
(***************************************************************************)
\* C9: under concurrent create_user / create_post calls each generate() is one atomic
\* step: at most one task is inside it, every call reads the counter its predecessor
\* left (no value is read twice, no advance is lost), and once n calls have run their
\* generate() to the end the counter is n mod 4096.
C9_AtomicGenerate ==
    /\ Cardinality({t \in Tasks : pc[t] \in InGenerate}) <= 1
    /\ \A k \in 1..(Len(readLog) - 1) :
          Val(readLog[k + 1]) = (Val(readLog[k]) + 1) % IncrementPeriod
    /\ \A i, j \in 1..Len(readLog) : i # j => readLog[i] # readLog[j]
    /\ lock = 0 => Val(gen.next_increment) = served % IncrementPeriod

\* a task waits for the mutex while another is inside generate(), after an
\* earlier call has already run its generate()
C9_Witness ==
    \E t \in Tasks, u \in Tasks :
        /\ pc[t] = "lock"
        /\ lock = u
        /\ pc[u] \in InGenerate
        /\ Len(readLog) >= 2

\* C10: two generators with different (worker id, process id) pairs never return
\* equal identifiers, whatever the instants and however many calls each serves.
C10_DistinctGenerators == kept[1] \cap kept[2] = {}

\* both generators have returned an identifier for the same instant and counter value
C10_Witness ==
    \E a \in kept[1], b \in kept[2] :
        /\ FieldOf(a, SnowflakeTimestamp) = FieldOf(b, SnowflakeTimestamp)
        /\ FieldOf(a, SnowflakeIncrement) = FieldOf(b, SnowflakeIncrement)

(***************************************************************************)
(* Properties of the token text form and hash.                             *)
(***************************************************************************)
\* C15: parsing the string as_token_str produced for a token gives a token equal to
\* the original in user id, core and salt.
C15_ParseFormat ==
    (tok.st = "some" /\ parsed.st # "unset") =>
        /\ parsed.st = "some"
        /\ parsed.val.user_id = tok.val.user_id
        /\ parsed.val.core = tok.val.core
        /\ parsed.val.salt = tok.val.salt

\* the token of user u64::MAX with the test's core has been formatted and parsed
C15_Witness ==
    /\ tok.st = "some"
    /\ tok.val.user_id = 0..MaxBit
    /\ tok.val.core = TestCore
    /\ parsed.st = "some"

\* the text before the first colon, between the first two, and after the second
FirstColon(s) == Min(Colons(s))

SecondColon(s) == Min(Colons(s) \ {FirstColon(s)})

UserSegment(s) == SubSeq(s, 1, FirstColon(s) - 1)

CoreSegment(s) == SubSeq(s, FirstColon(s) + 1, SecondColon(s) - 1)

SaltSegment(s) == SubSeq(s, SecondColon(s) + 1, Len(s))

\* an optional '+' and at least one decimal digit
DecimalText(seg) ==
    LET d == IF seg # <<>> /\ Head(seg) = "+" THEN Tail(seg) ELSE seg
    IN  d # <<>> /\ \A k \in 1..Len(d) : IsIn(d[k], DigitChars)

\* number of bytes a canonical base64 text stands for
Base64Bytes(seg) ==
    (Len(seg) \div 4) * 3 - Cardinality({k \in 1..Len(seg) : seg[k] = PadChar})

\* C16: parsing a string never panics and reports each defect with its own error:
\* fewer than two colons NotEnoughParts; a user-id segment that is no non-negative
\* integer InvalidUserId; a core or salt segment that is not base64 Decode; a core of
\* other than 24 bytes InvalidCoreLength; a salt of other than 18 bytes
\* InvalidSaltLength (the first defect in this order decides).
C16_ParseErrors ==
    (tok.st = "unset" /\ parsed.st # "unset") =>
        LET s == str.val
        IN  /\ parsed.st \in {"some", "err"}
            /\ Cardinality(Colons(s)) < 2 => parsed.err = "NotEnoughParts"
            /\ Cardinality(Colons(s)) >= 2 =>
                  /\ ~DecimalText(UserSegment(s)) => parsed.err = "InvalidUserId"
                  /\ u64_from_str(UserSegment(s)).st = "some" =>
                        /\ ~base64_valid(CoreSegment(s)) => parsed.err = "Decode"
                        /\ (base64_valid(CoreSegment(s))
                                /\ Base64Bytes(CoreSegment(s)) # AUTH_TOKEN_CORE_LEN) =>
                              parsed.err = "InvalidCoreLength"
                        /\ (base64_valid(CoreSegment(s))
                                /\ Base64Bytes(CoreSegment(s)) = AUTH_TOKEN_CORE_LEN) =>
                              /\ ~base64_valid(SaltSegment(s)) => parsed.err = "Decode"
                              /\ (base64_valid(SaltSegment(s))
                                      /\ Base64Bytes(SaltSegment(s)) # AUTH_TOKEN_SALT_LEN) =>
                                    parsed.err = "InvalidSaltLength"
                              /\ (base64_valid(SaltSegment(s))
                                      /\ Base64Bytes(SaltSegment(s)) = AUTH_TOKEN_SALT_LEN) =>
                                    parsed.st = "some"

\* a string whose core segment is the base64 of 23 bytes has been parsed, with a good
\* user id before it
C16_Witness ==
    /\ tok.st = "unset"
    /\ parsed.st = "err"
    /\ Cardinality(Colons(str.val)) >= 2
    /\ u64_from_str(UserSegment(str.val)).st = "some"
    /\ base64_valid(CoreSegment(str.val))
    /\ Base64Bytes(CoreSegment(str.val)) = AUTH_TOKEN_CORE_LEN - 1

Presented == header.kind = "bearer" /\ from_str(header.token).st = "some"

PresentedToken == from_str(header.token).val

\* a row that is a stored Authentication: a 32-byte hash and no or a positive expiry
IsAuthentication(r) ==
    /\ Len(r.token_hash) = AUTH_TOKEN_HASH_LEN
    /\ r.expires_after_seconds.st = "some" =>
          ~r.expires_after_seconds.neg /\ r.expires_after_seconds.mag # {}

\* the stored Authentications found under the presented token's hash
Found ==
    IF Presented /\ dbUp
    THEN {r \in table : IsAuthentication(r) /\ r.token_hash = hash(PresentedToken).val}
    ELSE {}

\* created_at + expires_after of a record with an expiry, as an instant on the time line
ExpiryOf(r) ==
    DurAdd(r.created_at, Dur(FALSE, Times1000(r.expires_after_seconds.mag), 0))

HasExpiry(r) == r.expires_after_seconds.st = "some"

ExpiryPassed(r) == HasExpiry(r) /\ DurLt(ExpiryOf(r), clock)

\* C11: validation succeeds and returns user u exactly when the presented string
\* decodes to a token, a stored Authentication is found under its hash, the record's
\* user is the token's user id u, and the record has no expiry or its expiry has not
\* passed.
C11_ValidationSucceeds ==
    outcome.st # "unset" =>
        /\ outcome.st = "ok" <=>
              \E r \in Found :
                  r.user_snowflake = PresentedToken.user_id /\ ~ExpiryPassed(r)
        /\ outcome.st = "ok" => outcome.user = PresentedToken.user_id

\* C12: a found record whose user differs from the token's user id is rejected as a
\* user mismatch: no success, no stored user id returned, no panic.
C12_UserMismatch ==
    (outcome.st # "unset"
        /\ \E r \in Found : r.user_snowflake # PresentedToken.user_id) =>
        outcome = Rejected("AuthTokenUserMismatch")

\* the token of user 9 was presented and the record found under its hash is user 7's
C12_Witness ==
    /\ outcome.st # "unset"
    /\ Presented
    /\ PresentedToken.user_id = {0, 3}
    /\ \E r \in Found : r.user_snowflake = {0, 1, 2}

\* C13: a found record of the token's user with an expiry is rejected if and only if
\* created_at + expires_after is strictly before now; at now = created_at +
\* expires_after it is accepted; a record without expiry is never rejected.
C13_ExpiryStrict ==
    outcome.st # "unset" =>
        \A r \in Found :
            r.user_snowflake = PresentedToken.user_id =>
                /\ HasExpiry(r) => (outcome.st = "rejected" <=> DurLt(ExpiryOf(r), clock))
                /\ (HasExpiry(r) /\ ExpiryOf(r) = clock) => outcome.st = "ok"
                /\ ~HasExpiry(r) => outcome.st = "ok"

\* the credential was presented exactly at created_at + expires_after
C13_Witness ==
    /\ outcome.st = "ok"
    /\ \E r \in Found :
          /\ r.user_snowflake = PresentedToken.user_id
          /\ HasExpiry(r)
          /\ ExpiryOf(r) = clock

\* C14: a missing record, a record of another user and an expired record are rejected
\* with three different outcomes; an expired credential is not reported with the
\* outcome of a missing record.
C14_DistinctOutcomes ==
    (outcome.st # "unset" /\ Presented /\ dbUp) =>
        LET missing == from_request_parts(header, {}, TRUE, clock)
        IN  /\ Found = {} /\ fetch_auth_rows(table, hash(PresentedToken).val) = {} =>
                  outcome = missing /\ outcome.st = "rejected"
            /\ \A r \in Found :
                  /\ r.user_snowflake # PresentedToken.user_id =>
                        outcome.st = "rejected" /\ outcome.why # missing.why
                  /\ (r.user_snowflake = PresentedToken.user_id /\ ExpiryPassed(r)) =>
                        /\ outcome.st = "rejected"
                        /\ outcome.why # missing.why
                        /\ outcome.why # "AuthTokenUserMismatch"

(***************************************************************************)
(* Properties of the part constructors, of the packing and of the counter. *)
(***************************************************************************)
\* the width the field of a part type is stated to have
StatedWidth(P) ==
    CASE P = SnowflakeTimestamp -> 42
      [] P = WorkerId           -> 5
      [] P = ProcessId          -> 5
      [] P = SnowflakeIncrement -> 12

\* v < 2^n: no bit at position n or above
Below2Pow(v, n) == v \subseteq 0..(n - 1)

\* C17: new(v) returns a part exactly when v < 2^width (42, 5, 5, 12 bits), the part
\* stores v itself, and otherwise new returns absent (try_from: an error) instead of a
\* truncated part; so every part that exists stores a value below 2^width.
C17_NewInRange ==
    LET fits == Below2Pow(ctorIn, StatedWidth(ctorPart))
    IN  /\ ctorNew # Unset =>
            /\ ctorNew.st = "some" <=> fits
            /\ ctorNew.st = "some" =>
                    ctorNew.val = ctorIn /\ Below2Pow(ctorNew.val, StatedWidth(ctorPart))
            /\ ctorNew.st # "some" => ctorNew = None
        /\ ctorTry # Unset =>
            /\ ctorTry.st = "some" <=> fits
            /\ ctorTry.st = "some" =>
                    ctorTry.val = ctorIn /\ Below2Pow(ctorTry.val, StatedWidth(ctorPart))
            /\ ctorTry.st # "some" => ctorTry = Err("SnowflakePartOutOfRange")

\* an out-of-range scalar with low bits set, refused by new and by try_from
C17_Witness ==
    /\ ~Below2Pow(ctorIn, StatedWidth(ctorPart))
    /\ Truncate(ctorIn, StatedWidth(ctorPart)) # {}
    /\ ctorNew = None
    /\ ctorTry.st = "err"

\* v * 2^n on u64, and whether the product keeps every bit of v
Times2Pow(v, n) == Shl(v, n)
FitsTimes2Pow(v, n) == \A b \in v : b + n <= MaxBit

\* C18: the packed value of from_parts(ts, w, p, i) is ts*2^22 + w*2^17 + p*2^12 + i;
\* the four fields lie in bits 63-22, 21-17, 16-12 and 11-0 without overlap, and no
\* bit of a legal part is shifted out of the 64 bits.
C18_PackedSum ==
    (raw = Unset /\ sf.st = "some") =>
        LET ts == parts.timestamp.val
            w  == parts.worker_id.val
            p  == parts.process_id.val
            i  == parts.increment.val
        IN  /\ FitsTimes2Pow(ts, 22) /\ FitsTimes2Pow(w, 17) /\ FitsTimes2Pow(p, 12)
            /\ sf.val = U64Add(U64Add(U64Add(Times2Pow(ts, 22), Times2Pow(w, 17)),
                                      Times2Pow(p, 12)), i)
            /\ Shr(sf.val \cap (22..63), 22) = ts
            /\ Shr(sf.val \cap (17..21), 17) = w
            /\ Shr(sf.val \cap (12..16), 12) = p
            /\ sf.val \cap (0..11) = i
            /\ sf.val \subseteq 0..MaxBit

\* the largest legal parts packed: every bit of the identifier is set
C18_Witness ==
    /\ raw = Unset
    /\ parts.timestamp.val = 0..41
    /\ parts.worker_id.val = 0..4
    /\ parts.process_id.val = 0..4
    /\ parts.increment.val = 0..11
    /\ sf = Some(0..MaxBit)

\* C19: next() of c is (c + 1) mod 4096, below 4096, with 4095 giving 0; increment()
\* leaves in place what next() returns.
C19_NextWraps ==
    before.st = "some" =>
        /\ nexted.st = "some"
        /\ nexted.val = Truncate(U64Add(before.val, {0}), 12)
        /\ Below2Pow(nexted.val, 12)
        /\ before.val = 0..11 => nexted.val = {}
        /\ counter = nexted.val

\* 4095 stepped to 0
C19_Witness ==
    /\ before = Some(0..11)
    /\ nexted = Some({})
    /\ counter = {}

(***************************************************************************)
(* Properties of calls that abort, of the lock and of the numeric order.   *)
(***************************************************************************)
\* identifiers returned by the (at most two) calls made on a new generator
ReturnedByTwo ==
    (IF prev.ret.st = "some" THEN 1 ELSE 0) + (IF last.ret.st = "some" THEN 1 ELSE 0)

\* C26: a generate_at call that aborts leaves the counter as it was before the call;
\* so on a new generator the counter is the number of identifiers returned, mod 4096.
C26_AbortKeepsCounter ==
    /\ last.ret.st = "panic" => gen.next_increment = last.counter
    /\ (served = calls /\ calls <= 2) =>
          Val(gen.next_increment) = ReturnedByTwo % IncrementPeriod

\* C25: the generator mutex is held only while generate() runs: a task that awaits its
\* insert (or has left the call) does not hold it.
C25_LockOnlyInGenerate ==
    /\ \A t \in Tasks : pc[t] = "insert" => lock # t
    /\ lock # 0 => pc[lock] \in InGenerate

\* a task awaits its insert while another task holds the mutex inside generate()
C25_Witness ==
    \E t \in Tasks, u \in Tasks :
        /\ pc[t] = "insert"
        /\ lock = u
        /\ u # t
        /\ pc[u] \in InGenerate

\* (a1, a2, a3, a4) before (b1, b2, b3, b4) in lexicographic order of unsigned values
LexLt(a, b) ==
    \E k \in 1..4 :
        /\ \A j \in 1..(k - 1) : a[j] = b[j]
        /\ U64Lt(a[k], b[k])

\* the parts generate_at hands to from_parts in a call
PartsOfCall(c) == <<try_from(c.time).val, gen.worker_id, gen.process_id, c.counter>>

\* C29: identifiers compare as their (timestamp, worker id, process id, increment)
\* compare lexicographically; an identifier a generator returns for a strictly later
\* millisecond is greater than the one it returned before.
C29_OrderByParts ==
    (prev.ret.st = "some" /\ last.ret.st = "some") =>
        /\ U64Lt(prev.ret.val, last.ret.val) <=> LexLt(PartsOfCall(prev), PartsOfCall(last))
        /\ DurLt(TruncateToMs(prev.time), TruncateToMs(last.time)) =>
              U64Lt(prev.ret.val, last.ret.val)

(***************************************************************************)
(* Properties of a validation running beside sweeps.                       *)
(***************************************************************************)
IsPrefix(a, b) == Len(a) <= Len(b) /\ \A k \in 1..Len(a) : a[k] = b[k]

Ran(check) == \E k \in 1..Len(req.log) : req.log[k] = check

LastCheck == req.log[Len(req.log)]

\* the request's header carries a string that decodes to a token
Wellformed == req.header.kind = "bearer" /\ from_str(req.header.token).st = "some"

\* created_at + expires_after_seconds of a row with an expiry value
SignedExpiryOf(r) ==
    DurAdd(r.created_at,
           Dur(r.expires_after_seconds.neg, Times1000(r.expires_after_seconds.mag), 0))

\* C21: the checks run in the order decode, hash, lookup, user match, expiry and the
\* first one that fails ends the validation: a malformed token is rejected with no
\* hash computed and no lookup made, and a found record of another user is reported
\* as a user mismatch even when it is expired as well.
C21_CheckOrder ==
    /\ IsPrefix(req.log, <<"decode", "hash", "lookup", "user", "expiry">>)
    /\ req.stage = "done" =>
          /\ req.outcome.st = "ok" => Len(req.log) = 5
          /\ ~Wellformed =>
                /\ req.log = <<"decode">>
                /\ req.outcome.st = "rejected"
                /\ req.outcome.why \in {"InvalidAuthorizationHeader", "AuthTokenFormat"}
                /\ req.hash = <<>> /\ req.rows = {}
          /\ req.outcome.st # "ok" =>
                LastCheck =
                    CASE req.outcome.why \in {"InvalidAuthorizationHeader", "AuthTokenFormat"}
                             -> "decode"
                      [] req.outcome.why = "AuthTokenHash" -> "hash"
                      [] req.outcome.why = "Database" -> "lookup"
                      [] req.outcome.why = "AuthTokenUserMismatch" -> "user"
                      [] req.outcome.why = "resulting value is out of range" -> "expiry"
                      [] req.outcome.why = "InvalidToken" ->
                             IF req.rows = {} THEN "lookup" ELSE "expiry"
                      [] OTHER -> "none"
          /\ \A r \in req.rows :
                (IsAuthentication(r) /\ r.user_snowflake # req.token.user_id) =>
                    /\ req.outcome = Rejected("AuthTokenUserMismatch")
                    /\ ~Ran("expiry")

\* the record found belongs to another user and its expiry has passed
C21_Witness ==
    /\ req.stage = "done"
    /\ \E r \in req.rows :
          /\ IsAuthentication(r)
          /\ r.user_snowflake # req.token.user_id
          /\ HasExpiry(r)
          /\ DurLt(SignedExpiryOf(r), wallClock)

\* whether a validation of the request's header against the rows as they were before
\* any sweep succeeds when it reads the clock at t
SucceedsUnswept(t) == from_request_parts(req.header, origin, req.up, t).st = "ok"

\* the instants at which the validation reads, or would have read, the clock
ExpiryInstants ==
    IF Ran("expiry") THEN {req.now} ELSE {t \in ReqInstants : ~DurLt(t, wallClock)}

\* C22: with sweeps interleaved in any way, a validation succeeds exactly when it
\* succeeds on the table no sweep has touched; a row a sweep has deleted is, at every
\* instant the clock shows from then on, one that no validation accepts.
C22_SweepHarmless ==
    /\ req.stage = "done" =>
          \A t \in ExpiryInstants : req.outcome.st = "ok" <=> SucceedsUnswept(t)
    /\ \A r \in origin \ store, h \in HeaderSamples :
          from_request_parts(h, {r}, TRUE, wallClock).st # "ok"

\* the validation found no row because a sweep had deleted the token's row
C22_Witness ==
    /\ req.stage = "done"
    /\ req.outcome = Rejected("InvalidToken")
    /\ req.rows = {}
    /\ \E r \in origin \ store :
          r.token_hash = req.hash /\ r.user_snowflake = req.token.user_id

\* C23: a sweep deletes exactly the rows that have an expiry with created_at +
\* expires_after < now, returns their number, and keeps the rows without expiry and the
\* rows whose expiry has not passed (a sweep whose statement fails deletes nothing).
C23_SweepDeletes ==
    /\ (sweep.pc = "idle" /\ sweep.st = "some") =>
          /\ sweep.was \ store =
                {r \in sweep.was : HasExpiry(r) /\ DurLt(SignedExpiryOf(r), sweep.now)}
          /\ store \subseteq sweep.was
          /\ sweep.rows_affected = Cardinality(sweep.was \ store)
          /\ \A r \in sweep.was :
                (~HasExpiry(r) \/ ~DurLt(SignedExpiryOf(r), sweep.now)) => r \in store
    /\ (sweep.pc = "idle" /\ sweep.st = "err") => store = sweep.was

\* a sweep at the instant of a row's expiry deleted another row and kept that one
C23_Witness ==
    /\ sweep.pc = "idle"
    /\ sweep.st = "some"
    /\ sweep.rows_affected = 1
    /\ \E r \in store : HasExpiry(r) /\ SignedExpiryOf(r) = sweep.now

\* C24: a step of the validation, whatever its result, leaves the table and the
\* generator as they are, and a validation queries the table at most once.
C24_ValidationReadsOnly ==
    [][req' # req =>
          /\ store' = store
          /\ gen' = gen
          /\ Cardinality({k \in 1..Len(req'.log) : req'.log[k] = "lookup"}) <= 1]_vars

\* the validation has made its lookup in a behaviour in which a sweep has changed the
\* table and the generator has advanced
C24_Witness ==
    /\ req.stage = "done"
    /\ Ran("lookup")
    /\ store # origin
    /\ gen.next_increment # {}

\* C27: an Authentication holds no expiry or a strictly positive one: a row with
\* expires_after_seconds zero or negative is refused with NonPositiveDuration.
C27_PositiveExpiry ==
    /\ req.auth.st = "some" =>
          LET e == req.auth.val.expires_after
          IN  e.st = "none" \/ (e.st = "some" /\ ~e.val.neg /\ e.val.ms # {})
    /\ (Ran("lookup") /\ req.up) =>
          \A r \in req.rows :
              LET s == r.expires_after_seconds
              IN  /\ s.st = "none" =>
                        req.auth.st = "some" /\ req.auth.val.expires_after.st = "none"
                  /\ (s.st = "some" /\ ~s.neg /\ s.mag # {}) =>
                        /\ req.auth.st = "some"
                        /\ req.auth.val.expires_after.st = "some"
                        /\ req.auth.val.expires_after.val = Dur(FALSE, Times1000(s.mag), 0)
                  /\ (s.st = "some" /\ (s.neg \/ s.mag = {})) =>
                        /\ req.auth.st = "err"
                        /\ req.auth.err = "NonPositiveDuration"
                        /\ req.outcome.st = "error"

\* a row with expires_after_seconds = 0 was fetched and refused
C27_Witness ==
    /\ req.auth.err = "NonPositiveDuration"
    /\ \E r \in req.rows :
          r.expires_after_seconds.st = "some" /\ r.expires_after_seconds.mag = {}

\* C28: a record fetch_auth returns for a hash carries that hash, so the assert_eq of
\* the validation never aborts.
C28_AssertHolds ==
    /\ req.auth.st = "some" => req.auth.val.token_hash = req.hash
    /\ req.outcome # Panicked("assert_eq")

\* a record was fetched from a table holding a row under another hash, and the
\* validation went past the assert_eq
C28_Witness ==
    /\ req.auth.st = "some"
    /\ Ran("user")
    /\ \E r \in origin : r.token_hash # req.hash

====
